---- MODULE Spec2Model ----
(***************************************************************************)
(* The chat backend of AI_AGENT: the Dispatcher (supervisor.js             *)
(* handleMessage), the agents it delegates to, and the style store the     *)
(* DesignAgent writes.  Strings are TLA+ strings; Chars gives the          *)
(* characters of each string that occurs, so that parseInt, trim, the      *)
(* regular expressions and includes are computed character by character.   *)
(***************************************************************************)
EXTENDS Integers, Sequences, FiniteSets, TLC

\* ------------------------------------------------------------ bounds
\* handleMessage invocations started in one behaviour
MaxCalls == 2
\* tool rounds (llmCall -> tools -> llmCall) of one DesignAgent invocation
MaxRounds == 1

\* tool calls run against the record store in one behaviour
MaxOps == 2
\* tool calls run one after the other in one behaviour
MaxSerialOps == 3

\* ------------------------------------------------------------ JS values
\* JS null / undefined (a record, never equal to a string, array or object)
Null == [type |-> "null"]
\* A JS Number: an integer, or Number.NaN
Num(n) == [nan |-> FALSE, n |-> n]

NaN == [nan |-> TRUE, n |-> 0]

\* a - k, a >= k and a < k on JS Numbers: NaN propagates and compares false
NumMinus(a, k) == IF a.nan THEN NaN ELSE Num(a.n - k)

NumGe(a, k) == ~a.nan /\ a.n >= k

NumLt(a, k) == ~a.nan /\ a.n < k

\* JS null in a slot that otherwise holds a string (a template literal prints it so)
NullId == "null"

\* The characters of every string of the model.
Chars(s) ==
    CASE s = "1" -> <<"1">>
      [] s = "2" -> <<"2">>
      [] s = "3" -> <<"3">>
      [] s = "0" -> <<"0">>
      [] s = "-1" -> <<"-","1">>
      [] s = " 1 " -> <<" ","1"," ">>
      [] s = "2nd" -> <<"2","n","d">>
      [] s = "yes" -> <<"y","e","s">>
      [] s = "7" -> <<"7">>
      [] s = "Change Client 7 title" -> <<"C","h","a","n","g","e"," ","C","l","i","e","n","t"," ","7"," ","t","i","t","l","e">>
      [] s = "I need to clarify which component" -> <<"I"," ","n","e","e","d"," ","t","o"," ","c","l","a","r","i","f","y"," ","w","h","i","c","h"," ","c","o","m","p","o","n","e","n","t">>
      [] s = "Component updated" -> <<"C","o","m","p","o","n","e","n","t"," ","u","p","d","a","t","e","d">>
      [] s = "Please select 1) c1 2) c2" -> <<"P","l","e","a","s","e"," ","s","e","l","e","c","t"," ","1",")"," ","c","1"," ","2",")"," ","c","2">>
      [] s = "Found component c1" -> <<"F","o","u","n","d"," ","c","o","m","p","o","n","e","n","t"," ","c","1">>
      [] s = "Should I proceed with this update?" -> <<"S","h","o","u","l","d"," ","I"," ","p","r","o","c","e","e","d"," ","w","i","t","h"," ","t","h","i","s"," ","u","p","d","a","t","e","?">>
      [] s = "Design updated" -> <<"D","e","s","i","g","n"," ","u","p","d","a","t","e","d">>
      [] s = "Please select a layout" -> <<"P","l","e","a","s","e"," ","s","e","l","e","c","t"," ","a"," ","l","a","y","o","u","t">>
      [] s = "Update completed." -> <<"U","p","d","a","t","e"," ","c","o","m","p","l","e","t","e","d",".">>
      [] s = "Invalid selection. Please choose a valid number from the list." -> <<"I","n","v","a","l","i","d"," ","s","e","l","e","c","t","i","o","n","."," ","P","l","e","a","s","e"," ","c","h","o","o","s","e"," ","a"," ","v","a","l","i","d"," ","n","u","m","b","e","r"," ","f","r","o","m"," ","t","h","e"," ","l","i","s","t",".">>
      [] s = "No response from editor agent." -> <<"N","o"," ","r","e","s","p","o","n","s","e"," ","f","r","o","m"," ","e","d","i","t","o","r"," ","a","g","e","n","t",".">>
      [] s = "No response from design agent." -> <<"N","o"," ","r","e","s","p","o","n","s","e"," ","f","r","o","m"," ","d","e","s","i","g","n"," ","a","g","e","n","t",".">>
      [] s = "No response from clarifier agent." -> <<"N","o"," ","r","e","s","p","o","n","s","e"," ","f","r","o","m"," ","c","l","a","r","i","f","i","e","r"," ","a","g","e","n","t",".">>
      [] s = "Sorry, I can only help with component editing right now." -> <<"S","o","r","r","y",","," ","I"," ","c","a","n"," ","o","n","l","y"," ","h","e","l","p"," ","w","i","t","h"," ","c","o","m","p","o","n","e","n","t"," ","e","d","i","t","i","n","g"," ","r","i","g","h","t"," ","n","o","w",".">>
      [] s = "Sorry, there was an error processing your request. Please try again." -> <<"S","o","r","r","y",","," ","t","h","e","r","e"," ","w","a","s"," ","a","n"," ","e","r","r","o","r"," ","p","r","o","c","e","s","s","i","n","g"," ","y","o","u","r"," ","r","e","q","u","e","s","t","."," ","P","l","e","a","s","e"," ","t","r","y"," ","a","g","a","i","n",".">>
      [] s = "need to clarify" -> <<"n","e","e","d"," ","t","o"," ","c","l","a","r","i","f","y">>
      [] s = "Please select" -> <<"P","l","e","a","s","e"," ","s","e","l","e","c","t">>
      [] s = "client" -> <<"c","l","i","e","n","t">>
      [] s = "update" -> <<"u","p","d","a","t","e">>
      [] s = "change" -> <<"c","h","a","n","g","e">>
      [] s = "modify" -> <<"m","o","d","i","f","y">>
      [] s = "Should I proceed" -> <<"S","h","o","u","l","d"," ","I"," ","p","r","o","c","e","e","d">>
      [] s = "" -> <<>>
      [] s = "header_design.social-icon-style" -> <<"h","e","a","d","e","r","_","d","e","s","i","g","n",".","s","o","c","i","a","l","-","i","c","o","n","-","s","t","y","l","e">>
      [] s = "card_design.radius" -> <<"c","a","r","d","_","d","e","s","i","g","n",".","r","a","d","i","u","s">>
      [] s = "card-radius" -> <<"c","a","r","d","-","r","a","d","i","u","s">>
      [] s = "header_design" -> <<"h","e","a","d","e","r","_","d","e","s","i","g","n">>
      [] s = "social-icon-style" -> <<"s","o","c","i","a","l","-","i","c","o","n","-","s","t","y","l","e">>
      [] s = "card_design" -> <<"c","a","r","d","_","d","e","s","i","g","n">>
      [] s = "radius" -> <<"r","a","d","i","u","s">>
      [] s = "title" -> <<"t","i","t","l","e">>
      [] s = "heading" -> <<"h","e","a","d","i","n","g">>
      [] s = "props.title" -> <<"p","r","o","p","s",".","t","i","t","l","e">>
      [] s = "props" -> <<"p","r","o","p","s">>
      [] s = "layout_json" -> <<"l","a","y","o","u","t","_","j","s","o","n">>
      [] s = "link_props.url" -> <<"l","i","n","k","_","p","r","o","p","s",".","u","r","l">>
      [] s = "link_props" -> <<"l","i","n","k","_","p","r","o","p","s">>
      [] s = "url" -> <<"u","r","l">>
      [] s = "client_id" -> <<"c","l","i","e","n","t","_","i","d">>
      [] s = "component_id" -> <<"c","o","m","p","o","n","e","n","t","_","i","d">>
      [] s = "component_type" -> <<"c","o","m","p","o","n","e","n","t","_","t","y","p","e">>
      [] s = "component_type.x" -> <<"c","o","m","p","o","n","e","n","t","_","t","y","p","e",".","x">>
      [] s = "x" -> <<"x">>
      [] s = "clientId" -> <<"c","l","i","e","n","t","I","d">>
      [] s = "componentId" -> <<"c","o","m","p","o","n","e","n","t","I","d">>
      [] s = "library_id" -> <<"l","i","b","r","a","r","y","_","i","d">>
      [] s = "clientid" -> <<"c","l","i","e","n","t","i","d">>
      [] s = "componentid" -> <<"c","o","m","p","o","n","e","n","t","i","d">>
      [] s = "props.a.b" -> <<"p","r","o","p","s",".","a",".","b">>
      [] s = "a" -> <<"a">>
      [] s = "b" -> <<"b">>
      [] s = "zzz" -> <<"z","z","z">>
      [] s = "Title" -> <<"T","i","t","l","e">>
      [] s = "Old" -> <<"O","l","d">>
      [] s = "old" -> <<"o","l","d">>
      [] s = "ol" -> <<"o","l">>
      [] s = "card" -> <<"c","a","r","d">>
      [] s = "Card" -> <<"C","a","r","d">>
      [] s = "lib1" -> <<"l","i","b","1">>
      [] s = "LIB1" -> <<"L","I","B","1">>
      [] s = "lib" -> <<"l","i","b">>
      [] s = "%ib%" -> <<"%","i","b","%">>
      [] s = "link" -> <<"l","i","n","k">>
      [] s = "Cap" -> <<"C","a","p">>
      [] s = "8" -> <<"8">>

\* String.prototype.toLowerCase on one character
LowerChar(ch) ==
    CASE ch = "A" -> "a" [] ch = "B" -> "b" [] ch = "C" -> "c" [] ch = "D" -> "d"
      [] ch = "E" -> "e" [] ch = "F" -> "f" [] ch = "G" -> "g" [] ch = "H" -> "h"
      [] ch = "I" -> "i" [] ch = "J" -> "j" [] ch = "K" -> "k" [] ch = "L" -> "l"
      [] ch = "M" -> "m" [] ch = "N" -> "n" [] ch = "O" -> "o" [] ch = "P" -> "p"
      [] ch = "Q" -> "q" [] ch = "R" -> "r" [] ch = "S" -> "s" [] ch = "T" -> "t"
      [] ch = "U" -> "u" [] ch = "V" -> "v" [] ch = "W" -> "w" [] ch = "X" -> "x"
      [] ch = "Y" -> "y" [] ch = "Z" -> "z" [] OTHER -> ch

Lower(cs) == [i \in 1..Len(cs) |-> LowerChar(cs[i])]

IsSpace(ch) == ch \in {" ", "\t", "\n", "\r"}

IsDigit(ch) == ch \in {"0", "1", "2", "3", "4", "5", "6", "7", "8", "9"}

DigitVal(ch) ==
    CASE ch = "0" -> 0 [] ch = "1" -> 1 [] ch = "2" -> 2 [] ch = "3" -> 3
      [] ch = "4" -> 4 [] ch = "5" -> 5 [] ch = "6" -> 6 [] ch = "7" -> 7
      [] ch = "8" -> 8 [] ch = "9" -> 9

\* String.prototype.trim: without the leading and trailing white space
RECURSIVE TrimLeft(_)
TrimLeft(cs) ==
    IF cs # <<>> /\ IsSpace(Head(cs)) THEN TrimLeft(Tail(cs)) ELSE cs

RECURSIVE TrimRight(_)
TrimRight(cs) ==
    IF cs # <<>> /\ IsSpace(cs[Len(cs)])
    THEN TrimRight(SubSeq(cs, 1, Len(cs) - 1))
    ELSE cs

Trim(cs) == TrimRight(TrimLeft(cs))

\* the longest prefix of cs made of digits
RECURSIVE DigitRun(_)
DigitRun(cs) ==
    IF cs # <<>> /\ IsDigit(Head(cs)) THEN <<Head(cs)>> \o DigitRun(Tail(cs)) ELSE <<>>

\* the longest prefix of cs made of white space
RECURSIVE SpaceRun(_)
SpaceRun(cs) ==
    IF cs # <<>> /\ IsSpace(Head(cs)) THEN <<Head(cs)>> \o SpaceRun(Tail(cs)) ELSE <<>>

RECURSIVE DecimalValue(_)
DecimalValue(ds) ==
    IF ds = <<>> THEN 0
    ELSE 10 * DecimalValue(SubSeq(ds, 1, Len(ds) - 1)) + DigitVal(ds[Len(ds)])

\* parseInt(string): leading white space skipped, an optional sign, then the
\* longest run of decimal digits; NaN when there is no digit.
ParseInt(cs) ==
    LET t == TrimLeft(cs)
        neg == t # <<>> /\ Head(t) = "-"
        signed == t # <<>> /\ Head(t) \in {"-", "+"}
        ds == DigitRun(IF signed THEN Tail(t) ELSE t)
    IN  IF ds = <<>> THEN NaN
        ELSE IF neg THEN Num(0 - DecimalValue(ds)) ELSE Num(DecimalValue(ds))

\* needle occurs in cs at position i
OccursAt(cs, needle, i) ==
    /\ i >= 1
    /\ i + Len(needle) - 1 <= Len(cs)
    /\ SubSeq(cs, i, i + Len(needle) - 1) = needle

\* String.prototype.includes
Includes(cs, needle) == \E i \in 1..(Len(cs) + 1) : OccursAt(cs, needle, i)

\* Strings of the model by their characters (the captured group of a match)
Strings ==
    {"1", "2", "3", "0", "7", "yes", "-1", " 1 ", "2nd", "",
     "header_design", "social-icon-style", "card_design", "radius", "card-radius",
     "title", "heading", "props", "layout_json", "link_props", "url", "client_id",
     "component_id", "component_type", "x", "clientId", "componentId", "library_id",
     "clientid", "componentid", "a", "b", "zzz", "Title",
     "props.title", "link_props.url", "component_type.x", "props.a.b",
     "Old", "old", "ol", "card", "Card", "lib1", "LIB1", "lib", "%ib%", "link", "Cap",
     "8"}

StringOf(cs) == CHOOSE s \in Strings : Chars(s) = cs

\* ------------------------------------------------------------ supervisor.js
\* text.match(/client\s+(\d+)/i): the digits of the leftmost match, or null
ClientIdMatch(cs) ==
    LET low == Lower(cs)
        key == Chars("client")
        after(i) == SubSeq(cs, i + Len(key), Len(cs))
        spaces(i) == SpaceRun(after(i))
        digits(i) == DigitRun(SubSeq(after(i), Len(spaces(i)) + 1, Len(after(i))))
        hits == {i \in 1..Len(cs) :
                    /\ OccursAt(low, key, i)
                    /\ spaces(i) # <<>>
                    /\ digits(i) # <<>>}
    IN  IF hits = {} THEN NullId
        ELSE StringOf(digits(CHOOSE i \in hits : \A j \in hits : i <= j))

\* text.match(/update|change|modify/i) is not null
UpdateMatch(cs) ==
    \/ Includes(Lower(cs), Chars("update"))
    \/ Includes(Lower(cs), Chars("change"))
    \/ Includes(Lower(cs), Chars("modify"))

\* extractOperationDetails(text)
extractOperationDetails(text) ==
    [clientId |-> ClientIdMatch(Chars(text)),
     operation |-> IF UpdateMatch(Chars(text)) THEN "update" ELSE "get",
     updates |-> <<>>,
     componentIds |-> <<>>]

\* the fixed replies of handleMessage
UpdateCompleted == "Update completed."

InvalidSelection == "Invalid selection. Please choose a valid number from the list."

NoEditorResponse == "No response from editor agent."

NoDesignResponse == "No response from design agent."

NoClarifierResponse == "No response from clarifier agent."

FallbackReply == "Sorry, I can only help with component editing right now."

ErrorReply == "Sorry, there was an error processing your request. Please try again."

\* new HumanMessage({content}) / new AIMessage({content})
HumanMessage(content) == [type |-> "human", content |-> content]

AIMessage(content) == [type |-> "ai", content |-> content]

\* messages.filter((m) => m._getType() === "ai").pop()
RECURSIVE LastAIMessage(_)
LastAIMessage(messages) ==
    IF messages = <<>> THEN Null
    ELSE IF messages[Len(messages)].type = "ai" THEN messages[Len(messages)]
    ELSE LastAIMessage(SubSeq(messages, 1, Len(messages) - 1))

\* a reply that is never read for its wording
NeverIncludes(last, needle) == FALSE

\* lastAIMessage && lastAIMessage.content.includes(needle)
LastIncludes(last, needle) ==
    last # Null /\ Includes(Chars(last.content), Chars(needle))

\* a selection branch taken only for three candidates or more
PendingOverTwo(localPending) ==
    /\ localPending # Null
    /\ Len(localPending.componentIds) > 2

\* the selection branch is taken: localPending && componentIds && length > 1
SelectionPending(localPending) ==
    /\ localPending # Null
    /\ Len(localPending.componentIds) > 1

\* the typed number taken as a 0-based index
TypedIndex(message) == ParseInt(Trim(Chars(message)))

\* parseInt(message.trim()) - 1
SelectedIndex(message) == NumMinus(ParseInt(Trim(Chars(message))), 1)

\* selectedIndex >= 0 && selectedIndex < componentIds.length
ValidSelection(selectedIndex, localPending) ==
    /\ NumGe(selectedIndex, 0)
    /\ NumLt(selectedIndex, Len(localPending.componentIds))

\* the HumanMessage the selection branch sends to EditorAgent:
\* `Update component with clientId: ${..}, componentId: ${..}, updates: ${JSON}`
SelectionRequest(localPending, selectedComponentId) ==
    [kind |-> "template",
     text |-> "Update component with",
     clientId |-> localPending.clientId,
     componentId |-> selectedComponentId,
     updates |-> localPending.updates]

\* the HumanMessage carrying the turn text as it is
TextRequest(message) == [kind |-> "text", text |-> message]

\* one agent.invoke({messages: [System(prompt), ...history, Human(request)]})
Invocation(agent, history, request) ==
    [agent |-> agent, history |-> history, request |-> request]

\* ------------------------------------------------------------ state
VARIABLES
    conversation,      \* supervisor.js:19, module scope (the CLI's history)
    pendingOperation,  \* supervisor.js:20, module scope (the CLI's pending operation)
    session,           \* per caller: the ConversationState the caller holds and resends
    call,              \* per caller: the handleMessage activation in flight
    designs,           \* the store's designs table: client_id -> row of JSONB columns
    calls,             \* handleMessage invocations started so far
    components,        \* the store's components table: row number -> row, or Null
    attachments,       \* the store's component_security_groups table, a sequence of rows
    uniquePair,        \* whether component_security_groups declares its pair unique
    op,                \* per request: the tool call of callEditorTools in flight
    ops                \* tool calls started so far

storeVars == <<components, attachments, uniquePair, op, ops>>

vars == <<conversation, pendingOperation, session, call, designs, calls,
          components, attachments, uniquePair, op, ops>>

\* the callers of POST /api/chat
Callers == {1, 2}

\* a handleMessage activation that has not started
IdleCall ==
    [pc |-> "idle",
     message |-> "",
     conversationArg |-> <<>>,
     pendingArg |-> Null,
     localPending |-> Null,
     localConversation |-> <<>>,
     invoked |-> <<>>,
     agentMessages |-> <<>>,
     toolCalls |-> <<>>,
     toolDone |-> {},
     rounds |-> 0,
     writes |-> <<>>,
     replies |-> <<>>,
     caught |-> FALSE,
     result |-> Null]

\* a localConversation that is the very array the caller passed
LocalIsArg == TRUE

\* const localConversation = [...conversation]: TRUE would be the caller's array itself
LocalAliasesArg == FALSE

\* localConversation.push(Human(message)); localConversation.push(AI(reply));
\* return {reply, conversation: localConversation, pendingOperation: localPending}
ReturnReply(cl, reply) ==
    LET turns == <<HumanMessage(cl.message), AIMessage(reply)>>
    IN  [cl EXCEPT
            !.pc = "returned",
            !.localConversation = @ \o turns,
            !.conversationArg = IF LocalAliasesArg THEN @ \o turns ELSE @,
            !.result = [reply |-> reply,
                        conversation |-> cl.localConversation \o turns,
                        pendingOperation |-> cl.localPending]]

\* the catch block of handleMessage
CatchError(cl) == ReturnReply([cl EXCEPT !.caught = TRUE], ErrorReply)

\* the final AI message an agent's invoke resolved with, noted on the activation
Replied(cl, agent, content) ==
    [cl EXCEPT !.replies = Append(@, [agent |-> agent, content |-> content])]

\* ------------------------------------------------------------ designSanitize.js
\* designUpdateFieldMap[key] (undefined: Null), for the raw keys of the model
designUpdateFieldMap(key) ==
    CASE key = "social icon style" -> "header_design.social-icon-style"
      [] key = "card radius" -> "card_design.radius"
      [] key = "card_radius" -> "card-radius"
      [] OTHER -> NullId

\* designFuse.search(key): the table keys within threshold 0.3 of key, best first
designFuseSearch(key) ==
    CASE key = "social icon style" -> <<"social icon style">>
      [] key = "card radius" -> <<"card radius">>
      [] key = "card_radius" -> <<"card_radius">>
      [] OTHER -> <<>>

\* mappedKey.split(".")
RECURSIVE SplitDots(_)
SplitDots(cs) ==
    IF \E i \in 1..Len(cs) : cs[i] = "."
    THEN LET i == CHOOSE k \in 1..Len(cs) :
                    cs[k] = "." /\ \A j \in 1..(k - 1) : cs[j] # "."
         IN  <<StringOf(SubSeq(cs, 1, i - 1))>> \o SplitDots(SubSeq(cs, i + 1, Len(cs)))
    ELSE <<StringOf(cs)>>

\* an update map is an ordered sequence of <<key, value>> entries (insertion order);
\* a document is a function from its keys to their values
EmptyDoc == [k \in {} |-> ""]

\* sanitized[top][sub] = value / sanitized[top] = value, on the nested object so far
SetPath(sanitized, parts, value) ==
    IF Len(parts) = 1
    THEN [k \in DOMAIN sanitized \cup {parts[1]} |->
             IF k = parts[1] THEN [leaf |-> TRUE, value |-> value, doc |-> EmptyDoc]
             ELSE sanitized[k]]
    ELSE LET old == IF parts[1] \in DOMAIN sanitized /\ ~sanitized[parts[1]].leaf
                    THEN sanitized[parts[1]].doc
                    ELSE EmptyDoc
             new == [k \in DOMAIN old \cup {parts[2]} |->
                        IF k = parts[2] THEN value ELSE old[k]]
         IN  [k \in DOMAIN sanitized \cup {parts[1]} |->
                 IF k = parts[1] THEN [leaf |-> FALSE, value |-> "", doc |-> new]
                 ELSE sanitized[k]]

\* sanitizeDesignUpdates(rawUpdates)
RECURSIVE SanitizeFrom(_, _)
SanitizeFrom(rawUpdates, sanitized) ==
    IF rawUpdates = <<>> THEN sanitized
    ELSE LET key == Head(rawUpdates)[1]
             exact == designUpdateFieldMap(key)
             found == designFuseSearch(key)
             mappedKey == IF exact # NullId THEN exact
                          ELSE IF found # <<>> THEN designUpdateFieldMap(found[1])
                          ELSE NullId
         IN  IF mappedKey = NullId
             THEN SanitizeFrom(Tail(rawUpdates), sanitized)
             ELSE SanitizeFrom(Tail(rawUpdates),
                               SetPath(sanitized, SplitDots(Chars(mappedKey)),
                                       Head(rawUpdates)[2]))

sanitizeDesignUpdates(rawUpdates) == SanitizeFrom(rawUpdates, EmptyDoc)

\* ------------------------------------------------------------ designTools.js
JSONB_FIELDS ==
    <<"header_design", "color_palate", "appearance", "page_props", "link_block",
      "card_block", "desktop_background", "card_design", "button_design", "text_props">>

\* a JSONB column: SQL NULL, or a document
NullColumn == [null |-> TRUE, doc |-> EmptyDoc]

Column(doc) == [null |-> FALSE, doc |-> doc]

\* a column that is replaced by the patch
ReplaceColumn(column, patch) == Column(patch)

\* COALESCE(column, '{}'::jsonb) || patch
MergeColumn(column, patch) ==
    LET old == IF column.null THEN EmptyDoc ELSE column.doc
    IN  Column([k \in DOMAIN old \cup DOMAIN patch |->
                    IF k \in DOMAIN patch THEN patch[k] ELSE old[k]])

\* the JSONB fields for which designUpdates[field] !== undefined (the SET clauses)
SetFields(designUpdates) ==
    {f \in {JSONB_FIELDS[i] : i \in 1..Len(JSONB_FIELDS)} : f \in DOMAIN designUpdates}

\* !clientId
Falsy(id) == id = NullId \/ id = ""

\* updateDesign({clientId, designUpdates}) on the table d; ioOk: pool.query succeeds.
\* threw: it raised (always "Failed to update design"); table: the designs table after.
updateDesign(clientId, designUpdates, d, ioOk) ==
    IF Falsy(clientId) THEN [threw |-> TRUE, table |-> d, wrote |-> FALSE]
    ELSE IF SetFields(designUpdates) = {} THEN [threw |-> TRUE, table |-> d, wrote |-> FALSE]
    ELSE IF ~ioOk THEN [threw |-> TRUE, table |-> d, wrote |-> FALSE]
    ELSE IF clientId \notin DOMAIN d THEN [threw |-> TRUE, table |-> d, wrote |-> FALSE]
    ELSE [threw |-> FALSE,
          wrote |-> TRUE,
          table |-> [d EXCEPT ![clientId] =
                        [f \in DOMAIN d[clientId] |->
                            IF f \in SetFields(designUpdates)
                            THEN IF designUpdates[f].leaf
                                 THEN d[clientId][f]
                                 ELSE MergeColumn(d[clientId][f], designUpdates[f].doc)
                            ELSE d[clientId][f]]]]

\* ------------------------------------------------------------ fuseConfig.js
\* a lookup that hands back the synonym it was given
FieldAsIs(canonical) == canonical

\* updateFieldMap[canonical], for the synonyms of the model (undefined: NullId)
updateFieldMap(canonical) ==
    CASE canonical = "title" -> "props.title"
      [] canonical = "heading" -> "props.title"
      [] canonical = "url" -> "link_props.url"
      [] OTHER -> NullId

\* fuse.search(query): the synonyms within threshold 0.4 of the query, best first.
\* A synonym matches itself with score 0; the other queries of the model are more
\* than 0.4 away from every synonym (too many edits for their length).
fuseSearch(query) ==
    CASE query = "title" -> <<"title">>
      [] query = "heading" -> <<"heading">>
      [] query = "url" -> <<"url">>
      [] OTHER -> <<>>

\* ------------------------------------------------------------ JSON values
\* a string, or a plain object whose members are JSON values
JsonString(s) == [object |-> FALSE, s |-> s, doc |-> EmptyDoc]

JsonObject(doc) == [object |-> TRUE, s |-> "", doc |-> doc]

\* Object.keys(map), map an object kept as its entries in insertion order
Keys(map) == {map[i][1] : i \in DOMAIN map}

\* map[key]
Get(map, key) == map[CHOOSE i \in DOMAIN map : map[i][1] = key][2]

\* an assignment that adds an entry whether or not the key is there
AppendEntry(map, key, value) == Append(map, <<key, value>>)

\* map[key] = value: an existing key keeps its place, a new one goes last
SetEntry(map, key, value) ==
    IF key \in Keys(map)
    THEN [i \in DOMAIN map |-> IF map[i][1] = key THEN <<key, value>> ELSE map[i]]
    ELSE Append(map, <<key, value>>)

\* ------------------------------------------------------------ callEditorTools
\* for (const key in rawUpdates): normalized[mappedKey or key] = rawUpdates[key]
RECURSIVE NormalizeFrom(_, _)
NormalizeFrom(rawUpdates, normalized) ==
    IF rawUpdates = <<>> THEN normalized
    ELSE LET key == Head(rawUpdates)[1]
             result == fuseSearch(StringOf(Lower(Chars(key))))
             mappedKey == IF result # <<>> THEN updateFieldMap(result[1]) ELSE key
         IN  NormalizeFrom(Tail(rawUpdates),
                           SetEntry(normalized, mappedKey, Head(rawUpdates)[2]))

\* toolCall.args.updates as callEditorTools hands it to updateComponent
NormalizeUpdates(rawUpdates) == NormalizeFrom(rawUpdates, <<>>)

\* ------------------------------------------------------------ sanitizeUpdates.js
protectedFields == <<"clientId", "componentId", "component_type", "library_id">>

\* protectedFields.includes(text), text given by its characters
ProtectedIncludes(cs) == \E i \in DOMAIN protectedFields : Chars(protectedFields[i]) = cs

\* path.join(".")
RECURSIVE JoinDots(_)
JoinDots(path) ==
    IF path = <<>> THEN <<>>
    ELSE IF Len(path) = 1 THEN Chars(path[1])
    ELSE Chars(path[1]) \o <<".">> \o JoinDots(Tail(path))

\* a guard that looks at the key as a whole only
ProtectedAsWritten(key) == ProtectedIncludes(Chars(key))

\* the key itself or one of its dotted prefixes is a protected field
IsProtected(key) ==
    \/ ProtectedIncludes(Chars(key))
    \/ LET parts == SplitDots(Chars(key))
       IN  \E n \in 1..Len(parts) : ProtectedIncludes(JoinDots(SubSeq(parts, 1, n)))

RECURSIVE SanitizeUpdatesFrom(_, _)
SanitizeUpdatesFrom(rawUpdates, acc) ==
    IF rawUpdates = <<>> THEN acc
    ELSE LET key == Head(rawUpdates)[1]
         IN  SanitizeUpdatesFrom(Tail(rawUpdates),
                IF IsProtected(key)
                THEN [acc EXCEPT !.rejected = Append(@, key)]
                ELSE [acc EXCEPT !.sanitized = SetEntry(@, key, Head(rawUpdates)[2])])

\* sanitizeUpdates(rawUpdates): {sanitized, rejected}
sanitizeUpdates(rawUpdates) ==
    SanitizeUpdatesFrom(rawUpdates, [sanitized |-> <<>>, rejected |-> <<>>])

\* ------------------------------------------------------------ the components table
\* the columns the code names, by the type its statements use them at
TextColumns == {"client_id", "component_id", "component_type", "library_id"}

JsonbColumns == {"props", "layout_json", "link_props"}

BoolColumns == {"is_secured"}

Columns == TextColumns \cup JsonbColumns \cup BoolColumns

\* a bound parameter: JSON.stringify(value) (json), or the value as it is
JsonParam(value) == [json |-> TRUE, value |-> value]

RawParam(value) == [json |-> FALSE, value |-> value]

\* one element of setClauses, $idx being its parameter
SetClause(key, value, idx) ==
    IF key = "props" /\ value.object
    THEN [kind |-> "merge", column |-> "props", key |-> "", param |-> idx]
    ELSE IF Includes(Chars(key), <<".">>)
    THEN LET parts == SplitDots(Chars(key))
         IN  [kind |-> "jsonb_set", column |-> parts[1], key |-> parts[2], param |-> idx]
    ELSE [kind |-> "direct", column |-> key, key |-> "", param |-> idx]

\* the parameter pushed with it
ClauseParam(key, value) ==
    IF (key = "props" /\ value.object) \/ Includes(Chars(key), <<".">>)
    THEN JsonParam(value)
    ELSE RawParam(value)

\* setClauses and values of updateComponent's UPDATE, idx counting from 3
BuildUpdate(clientId, componentId, updates) ==
    [setClauses |-> [k \in DOMAIN updates |->
                        SetClause(updates[k][1], updates[k][2], k + 2)],
     values |-> <<RawParam(JsonString(clientId)), RawParam(JsonString(componentId))>>
                \o [k \in DOMAIN updates |-> ClauseParam(updates[k][1], updates[k][2])]]

\* a text that is a JSON document by itself (of the model's texts: a number)
IsJsonText(s) ==
    /\ Chars(s) # <<>>
    /\ \A i \in 1..Len(Chars(s)) : IsDigit(Chars(s)[i])

\* the statement is refused: an empty SET list, an unknown column, a column
\* assigned twice, or a value its column's type does not take
ClauseRefused(clause, values) ==
    LET value == values[clause.param].value
    IN  \/ clause.column \notin Columns
        \/ clause.kind \in {"merge", "jsonb_set"} /\ clause.column \notin JsonbColumns
        \/ /\ clause.kind = "direct"
           /\ clause.column \in JsonbColumns
           /\ ~value.object
           /\ ~IsJsonText(value.s)
        \/ /\ clause.kind = "direct"
           /\ clause.column \in BoolColumns
           /\ (value.object \/ value.s \notin {"true", "false"})

StatementRefused(setClauses, values) ==
    \/ setClauses = <<>>
    \/ \E k \in DOMAIN setClauses : ClauseRefused(setClauses[k], values)
    \/ \E j, k \in DOMAIN setClauses : j # k /\ setClauses[j].column = setClauses[k].column

\* the new value of a column under one SET clause, computed from the old row
Assigned(row, clause, values) ==
    LET value == values[clause.param].value
    IN  IF clause.kind = "merge"
        THEN MergeColumn(row[clause.column], value.doc)
        ELSE IF clause.kind = "jsonb_set"
        THEN MergeColumn(row[clause.column], [k \in {clause.key} |-> value])
        ELSE IF clause.column \in JsonbColumns
        THEN IF value.object THEN Column(value.doc)
             ELSE Column([k \in {} |-> value])
        ELSE IF clause.column \in BoolColumns THEN value.s = "true"
        ELSE value

\* a SET list of which only the first clause is applied
SetFirst(row, setClauses, values) ==
    [f \in DOMAIN row |->
        IF setClauses[1].column = f THEN Assigned(row, setClauses[1], values)
        ELSE row[f]]

\* the row after SET setClauses
SetRow(row, setClauses, values) ==
    [f \in DOMAIN row |->
        IF \E k \in DOMAIN setClauses : setClauses[k].column = f
        THEN Assigned(row, setClauses[CHOOSE k \in DOMAIN setClauses :
                                        setClauses[k].column = f], values)
        ELSE row[f]]

\* a WHERE clause that names the client only
MatchingClient(table, clientId, componentId) ==
    {i \in DOMAIN table : table[i] # Null /\ table[i].client_id = JsonString(clientId)}

\* the rows of WHERE client_id = $1 AND component_id = $2
Matching(table, clientId, componentId) ==
    {i \in DOMAIN table : /\ table[i] # Null
                          /\ table[i].client_id = JsonString(clientId)
                          /\ table[i].component_id = JsonString(componentId)}

\* UPDATE components SET ... WHERE client_id = $1 AND component_id = $2 RETURNING *
UpdateComponents(table, setClauses, values) ==
    IF StatementRefused(setClauses, values)
    THEN [threw |-> TRUE, table |-> table, rowCount |-> 0]
    ELSE LET hit == Matching(table, values[1].value.s, values[2].value.s)
         IN  [threw |-> FALSE,
              table |-> [i \in DOMAIN table |->
                            IF i \in hit THEN SetRow(table[i], setClauses, values)
                            ELSE table[i]],
              rowCount |-> Cardinality(hit)]

\* DELETE FROM components WHERE component_id = $1
DeleteComponents(table, componentId) ==
    LET hit == {i \in DOMAIN table : /\ table[i] # Null
                                     /\ table[i].component_id = JsonString(componentId)}
    IN  [table |-> [i \in DOMAIN table |-> IF i \in hit THEN Null ELSE table[i]],
         rowCount |-> Cardinality(hit)]

\* ------------------------------------------------------------ searchTool.js
\* normalizeCriteria(rawCriteria): normalized[mappedField or key] = rawCriteria[key]
RECURSIVE NormalizeCriteriaFrom(_, _)
NormalizeCriteriaFrom(rawCriteria, normalized) ==
    IF rawCriteria = <<>> THEN normalized
    ELSE LET key == Head(rawCriteria)[1]
             search == fuseSearch(StringOf(Lower(Chars(key))))
         IN  NormalizeCriteriaFrom(Tail(rawCriteria),
                SetEntry(normalized,
                         IF search # <<>> THEN updateFieldMap(search[1]) ELSE key,
                         Head(rawCriteria)[2]))

normalizeCriteria(rawCriteria) == NormalizeCriteriaFrom(rawCriteria, <<>>)

\* a clause whose text carries the value itself
InlineClause(key, val, idx) ==
    [kind |-> "text", column |-> key, key |-> val, comparator |-> "=", param |-> idx]

\* one element of clauses, $idx being its parameter: col->>'jsonKey' = $idx for a
\* dotted key, key::text = $idx or key::text ILIKE $idx for the others
SearchClause(key, val, idx) ==
    IF Includes(Chars(key), <<".">>)
    THEN LET parts == SplitDots(Chars(key))
         IN  [kind |-> "json", column |-> parts[1], key |-> parts[2],
              comparator |-> "=", param |-> idx]
    ELSE [kind |-> "text", column |-> key, key |-> "",
          comparator |-> IF key = "component_type" THEN "=" ELSE "ILIKE",
          param |-> idx]

\* a statement with the criteria's clauses alone
UnscopedStatement(clientId, criteria) ==
    [clauses |-> [k \in DOMAIN criteria |->
                    SearchClause(criteria[k][1], criteria[k][2], k)],
     values |-> [k \in DOMAIN criteria |-> criteria[k][2]]]

\* clauses and values of searchComponent's SELECT, idx counting from 2
SearchStatement(clientId, criteria) ==
    [clauses |-> <<[kind |-> "id", column |-> "client_id", key |-> "",
                    comparator |-> "=", param |-> 1]>>
                 \o [k \in DOMAIN criteria |->
                        SearchClause(criteria[k][1], criteria[k][2], k + 1)],
     values |-> <<clientId>> \o [k \in DOMAIN criteria |-> criteria[k][2]]]

\* text LIKE pattern: % stands for any run of characters, _ for any one
RECURSIVE Like(_, _)
Like(text, pattern) ==
    IF pattern = <<>> THEN text = <<>>
    ELSE IF Head(pattern) = "%"
    THEN Like(text, Tail(pattern)) \/ (text # <<>> /\ Like(Tail(text), pattern))
    ELSE /\ text # <<>>
         /\ (Head(pattern) = "_" \/ Head(pattern) = Head(text))
         /\ Like(Tail(text), Tail(pattern))

\* text ILIKE pattern
ILike(text, pattern) == Like(Lower(text), Lower(pattern))

\* the statement is refused: an unknown column, or ->> on a column that is no
\* document
SearchRefused(clauses) ==
    \E k \in DOMAIN clauses :
        \/ clauses[k].column \notin Columns
        \/ clauses[k].kind = "json" /\ clauses[k].column \notin JsonbColumns

\* the clause holds of the row (a comparison with SQL NULL holds of no row); the
\* ::text clauses of the model are on text columns
ClauseHolds(row, clause, values) ==
    LET value == values[clause.param]
    IN  IF clause.kind = "json"
        THEN /\ ~row[clause.column].null
             /\ clause.key \in DOMAIN row[clause.column].doc
             /\ row[clause.column].doc[clause.key].s = value
        ELSE IF clause.comparator = "="
        THEN row[clause.column].s = value
        ELSE ILike(Chars(row[clause.column].s), Chars(value))

\* rows that satisfy one of the clauses
AnyClauseHolds(row, clauses, values) ==
    \E k \in DOMAIN clauses : ClauseHolds(row, clauses[k], values)

\* WHERE clauses.join(" AND ")
AllClausesHold(row, clauses, values) ==
    \A k \in DOMAIN clauses : ClauseHolds(row, clauses[k], values)

\* SELECT component_id, component_type, props FROM components WHERE ...
SearchComponents(table, clauses, values) ==
    IF SearchRefused(clauses) THEN [threw |-> TRUE, rows |-> {}]
    ELSE [threw |-> FALSE,
          rows |-> {i \in DOMAIN table :
                        table[i] # Null /\ AllClausesHold(table[i], clauses, values)}]

\* rows.map((r) => ({componentId, type, props}))
FoundComponents(table, rows) ==
    {[componentId |-> table[i].component_id.s, type |-> table[i].component_type.s,
      props |-> table[i].props] : i \in rows}

\* ------------------------------------------------------------ getComponent
\* the rows of getComponent's SELECT: the component when componentId is given, all
\* components of the client otherwise
GetRows(table, clientId, componentId) ==
    IF ~Falsy(componentId) THEN Matching(table, clientId, componentId)
    ELSE {i \in DOMAIN table : table[i] # Null /\ table[i].client_id = JsonString(clientId)}

\* ------------------------------------------------------------ removeSecurityGroup
\* DELETE FROM component_security_groups WHERE component_id = $1 AND
\* security_group_id = $2
DeleteAttachment(table, componentId, security_group_id) ==
    SelectSeq(table, LAMBDA row : row # <<componentId, security_group_id>>)

\* SELECT * FROM component_security_groups WHERE component_id = $1
RemainingGroups(table, componentId) ==
    {i \in DOMAIN table : table[i][1] = componentId}

\* ------------------------------------------------------------ inputs
\* the turn texts a caller sends
Messages ==
    {"2", "3", "0", "-1", " 1 ", "2nd", "yes", "Change Client 7 title"}

\* a pendingOperation a caller may send without having received it
ForgedPendings ==
    {[clientId |-> "7", operation |-> "update",
      updates |-> << <<"props.title", "Home">> >>, componentIds |-> <<"c1", "c2">>],
     [clientId |-> "7", operation |-> "delete",
      updates |-> <<>>, componentIds |-> <<"c1", "c2", "c3">>],
     [clientId |-> "7", operation |-> "get",
      updates |-> <<>>, componentIds |-> <<"c1", "c2">>],
     [clientId |-> "7", operation |-> "update",
      updates |-> << <<"props.title", "Home">> >>, componentIds |-> <<"c1">>]}

\* what RouterAgent.invoke yields: it raises, its reply carries no tool call,
\* or the first tool call names this route
RouterOutcomes == {"throw", "none", "editor", "design", "clarify", "billing"}

\* the final AI message of EditorAgent / ClarifierAgent / DesignAgent
EditorContents == {"I need to clarify which component", "Component updated"}

ClarifierContents == {"Please select 1) c1 2) c2", "Found component c1"}

DesignContents ==
    {"Should I proceed with this update?", "Design updated", "Please select a layout"}

\* the candidates a clarifier reply enumerates
ListedIds(content) ==
    IF content = "Please select 1) c1 2) c2" THEN <<"c1", "c2">>
    ELSE IF content = "Found component c1" THEN <<"c1">>
    ELSE <<>>

Outcomes(contents) ==
    {[threw |-> TRUE, content |-> ""]} \cup {[threw |-> FALSE, content |-> s] : s \in contents}

\* the tool calls designLLM may emit in one message
ToolCall(name, clientId, designUpdates) ==
    [name |-> name, args |-> [clientId |-> clientId, designUpdates |-> designUpdates]]

DesignToolCalls ==
    {<<ToolCall("updateDesign", "7", << <<"social icon style", "solid">> >>)>>,
     <<ToolCall("updateDesign", "7", << <<"zzz", "1">> >>)>>,
     <<ToolCall("getClientDesign", "7", <<>>)>>,
     <<ToolCall("updateDesign", "7", << <<"card radius", "full">> >>),
       ToolCall("updateDesign", "7", << <<"card_radius", "small">>,
                                        <<"social icon style", "stroked">> >>)>>}

\* ------------------------------------------------------------ the record store
\* the store's rows at the start: two components of client 7
InitialComponents ==
    <<[client_id |-> JsonString("7"), component_id |-> JsonString("c1"),
       component_type |-> JsonString("card"), library_id |-> JsonString("lib1"),
       is_secured |-> FALSE,
       props |-> Column([k \in {"title", "caption"} |->
                    IF k = "title" THEN JsonString("Old") ELSE JsonString("Cap")]),
       layout_json |-> Column([k \in {"textalignment", "width"} |->
                    IF k = "width" THEN JsonString("wide") ELSE JsonString("left")]),
       link_props |-> NullColumn],
      [client_id |-> JsonString("7"), component_id |-> JsonString("c2"),
       component_type |-> JsonString("link"), library_id |-> JsonString("lib1"),
       is_secured |-> FALSE,
       props |-> NullColumn,
       layout_json |-> NullColumn,
       link_props |-> NullColumn]>>

\* the security_groups table: (client_id, security_group_title) -> security_group_id
SecurityGroups ==
    {[client_id |-> "7", security_group_title |-> "admins", security_group_id |-> "g1"],
     [client_id |-> "7", security_group_title |-> "editors", security_group_id |-> "g2"],
     [client_id |-> "8", security_group_title |-> "staff", security_group_id |-> "g3"]}

\* the requests whose tool calls run against the store at the same time
Requests == {1, 2}

\* error.message of a pool.query that failed for want of the store
ErrorMessages == {"Connection terminated unexpectedly", "timeout exceeded"}

\* error.message of a statement the store refused (a column that does not exist,
\* several assignments to one column, a value its column does not take)
RefusedMessage == "statement refused"

\* a request with no tool call in flight
IdleOp ==
    [pc |-> "idle", name |-> "", args |-> Null, updates |-> <<>>, rejected |-> <<>>,
     setClauses |-> <<>>, values |-> <<>>, security_group_id |-> NullId,
     rows |-> {}, statements |-> <<>>, logged |-> <<>>, result |-> Null]

\* the raw update maps the classifier hands to updateComponent
RawUpdateMaps ==
    {<<>>,
     << <<"title", JsonString("Home")>> >>,
     << <<"component_type", JsonString("hero")>> >>,
     << <<"component_type", JsonString("hero")>>, <<"title", JsonString("Home")>> >>,
     << <<"component_type.x", JsonString("y")>>, <<"clientId", JsonString("9")>> >>,
     << <<"client_id", JsonString("9")>> >>,
     << <<"layout_json", JsonObject([k \in {"textalignment"} |-> JsonString("center")])>> >>,
     << <<"props", JsonObject([k \in {"title"} |-> JsonString("Home")])>> >>,
     << <<"props.a.b", JsonString("v")>> >>,
     << <<"url", JsonString("u")>>, <<"props.title", JsonString("Home")>> >>,
     << <<"props.title", JsonString("Home")>>, <<"zzz", JsonString("v")>> >>}

\* the tool calls of the model: toolCall.name and toolCall.args
EditorToolCalls ==
    {[name |-> "updateComponent",
      args |-> [clientId |-> "7", componentId |-> id, updates |-> u]] :
        id \in {"c1"}, u \in RawUpdateMaps}
    \cup {[name |-> "updateComponent",
           args |-> [clientId |-> cl, componentId |-> id,
                     updates |-> << <<"title", JsonString("Home")>> >>]] :
            cl \in {"7", ""}, id \in {"c2", "c3", ""}}
    \cup {[name |-> "deleteComponent", args |-> [clientId |-> "7", componentId |-> id]] :
            id \in {"c1", "c3", ""}}
    \cup {[name |-> "addSecurityGroup",
           args |-> [clientId |-> "7", componentId |-> "c1", security_group_title |-> t]] :
            t \in {"admins", "nogroup", ""}}
    \cup {[name |-> "updateDesign",
           args |-> [clientId |-> "7",
                     designUpdates |-> << <<k, "full">> >>]] :
            k \in {"card radius", "social icon style"}}

\* the tool calls of the requests that come one after the other
TagArgs ==
    {[clientId |-> "7", componentId |-> "c1", security_group_title |-> "admins"],
     [clientId |-> "7", componentId |-> "c1", security_group_title |-> "editors"],
     [clientId |-> "7", componentId |-> "c1", security_group_title |-> "staff"],
     [clientId |-> "7", componentId |-> "c1", security_group_title |-> ""],
     [clientId |-> "7", componentId |-> "", security_group_title |-> "admins"],
     [clientId |-> "", componentId |-> "c1", security_group_title |-> "admins"],
     [clientId |-> "7", componentId |-> "c2", security_group_title |-> "admins"]}

\* update maps with two entries for one target: the whole document and one of its
\* keys, either way round, and two synonyms of one path
SameTargetMaps ==
    {<< <<"props", JsonObject([k \in {"title"} |-> JsonString("Home")])>>,
        <<"props.title", JsonString("hero")>> >>,
     << <<"props.title", JsonString("hero")>>,
        <<"props", JsonObject([k \in {"title"} |-> JsonString("Home")])>> >>,
     << <<"title", JsonString("Home")>>, <<"heading", JsonString("hero")>> >>,
     << <<"heading", JsonString("hero")>>, <<"url", JsonString("u")>>,
        <<"title", JsonString("Home")>> >>}

SerialToolCalls ==
    {[name |-> n, args |-> a] : n \in {"addSecurityGroup", "removeSecurityGroup"},
                                a \in TagArgs}
    \cup {[name |-> "getComponent", args |-> [clientId |-> cl, componentId |-> id]] :
            cl \in {"7", ""}, id \in {"c1", "c3", ""}}
    \cup {[name |-> "updateComponent",
           args |-> [clientId |-> a[1], componentId |-> a[2],
                     updates |-> << <<"title", JsonString("Home")>> >>]] :
            a \in {<<"7", "c1">>, <<"", "c1">>, <<"7", "">>}}
    \cup {[name |-> "updateComponent",
           args |-> [clientId |-> "7", componentId |-> "c1", updates |-> u]] :
            u \in SameTargetMaps}
    \cup {[name |-> "deleteComponent", args |-> [clientId |-> a[1], componentId |-> a[2]]] :
            a \in {<<"7", "c2">>, <<"", "c2">>, <<"7", "">>}}
    \cup {[name |-> "updateDesign", args |-> [clientId |-> a[1], designUpdates |-> a[2]]] :
            a \in {<<"7", << <<"card radius", "full">> >> >>,
                   <<"", << <<"card radius", "full">> >> >>,
                   <<"7", << <<"zzz", "1">>, <<"card radius", "full">> >> >>,
                   <<"7", << <<"zzz", "1">> >> >>,
                   <<"7", << <<"card_radius", "small">> >> >>}}

\* the components searchComponent looks through: those of client 7 and one of
\* client 8
SearchableComponents ==
    InitialComponents
    \o <<[client_id |-> JsonString("8"), component_id |-> JsonString("c9"),
          component_type |-> JsonString("card"), library_id |-> JsonString("lib1"),
          is_secured |-> FALSE,
          props |-> Column([k \in {"title"} |-> JsonString("Old")]),
          layout_json |-> NullColumn,
          link_props |-> NullColumn]>>

\* the raw criteria maps the classifier hands to searchComponent
RawCriteriaMaps ==
    {<<>>,
     << <<"component_type", "card">> >>,
     << <<"component_type", "Card">> >>,
     << <<"title", "Old">> >>,
     << <<"Title", "old">> >>,
     << <<"props.title", "ol">> >>,
     << <<"library_id", "LIB1">> >>,
     << <<"library_id", "lib">> >>,
     << <<"library_id", "%ib%">> >>,
     << <<"component_type", "card">>, <<"title", "Old">> >>,
     << <<"component_type", "link">>, <<"library_id", "lib1">> >>,
     << <<"title", "Old">>, <<"heading", "ol">> >>,
     << <<"zzz", "card">> >>}

\* the tool calls of a clarifierLLM response: searchComponent, the one tool bound
\* to the model, or a call under another tool's name
ClarifierToolCalls ==
    {[name |-> "searchComponent", args |-> [clientId |-> cl, criteria |-> c]] :
        cl \in {"7", "8", "9"}, c \in RawCriteriaMaps}
    \cup {[name |-> "deleteComponent", args |-> [clientId |-> "7", criteria |-> c]] :
            c \in {<< <<"component_type", "card">> >>, << <<"title", "Old">> >>}}

\* ------------------------------------------------------------ Init
InitialDesigns ==
    [id \in {"7"} |->
        [f \in {JSONB_FIELDS[i] : i \in 1..Len(JSONB_FIELDS)} |->
            IF f = "header_design"
            THEN Column([k \in {"Layout", "social-icon-style"} |->
                            IF k = "Layout" THEN "classic" ELSE "stroked"])
            ELSE NullColumn]]

\* a caller starts with no history and no pending selection, or sends a state of
\* its own making (req.body is not validated beyond `message`)
FreshSession == [conversation |-> <<>>, pendingOperation |-> Null, verbatim |-> TRUE]

InitialSessions ==
    {FreshSession,
     [conversation |-> Null, pendingOperation |-> Null, verbatim |-> FALSE]}
    \cup {[conversation |-> <<>>, pendingOperation |-> p, verbatim |-> FALSE] :
            p \in ForgedPendings}

Init ==
    /\ conversation = <<>>
    /\ pendingOperation = Null
    /\ session \in {s \in [Callers -> InitialSessions] : s[2] = FreshSession}
    /\ call = [c \in Callers |-> IdleCall]
    /\ designs = InitialDesigns
    /\ calls = 0
    /\ components = InitialComponents
    /\ attachments = <<>>
    /\ uniquePair = TRUE
    /\ op = [r \in Requests |-> IdleOp]
    /\ ops = 0

\* a handleMessage working on the module-scope variables
StateIsShared == FALSE

\* ------------------------------------------------------------ handleMessage
\* let localPending = pendingOperation; let localConversation = [...conversation]:
\* the state of a request lives in locals of its own activation, seeded from its
\* parameters (FALSE: in the module-scope variables, as handleInput keeps it)
StateIsLocal == TRUE

\* the locals of c's activation as its code reads them
Activation(c) ==
    IF StateIsLocal THEN call[c]
    ELSE [call[c] EXCEPT !.localPending = pendingOperation,
                         !.localConversation = conversation]

\* c's activation goes on as cl
Commit(c, cl) ==
    /\ call' = [call EXCEPT ![c] = cl]
    /\ IF StateIsLocal
       THEN UNCHANGED <<conversation, pendingOperation>>
       ELSE /\ conversation' = cl.localConversation
            /\ pendingOperation' = cl.localPending

\* handleMessage({message, conversation, pendingOperation}) up to its first await
HandleMessage(c, m) ==
    /\ call[c].pc = "idle"
    /\ calls < MaxCalls
    /\ calls' = calls + 1
    /\ LET conv == session[c].conversation
           pend == session[c].pendingOperation
           started == [IdleCall EXCEPT
                          !.message = m,
                          !.conversationArg = conv,
                          !.pendingArg = pend]
           cl == [started EXCEPT !.localPending = pend, !.localConversation = conv]
       IN  IF conv = Null
           THEN \* [...conversation] raises before the try block is entered
                Commit(c, [started EXCEPT !.pc = "threw"])
           ELSE IF SelectionPending(pend)
           THEN IF ValidSelection(SelectedIndex(m), pend)
                THEN Commit(c, [cl EXCEPT
                        !.pc = "selection",
                        !.invoked = <<Invocation("EditorAgent", conv,
                            SelectionRequest(pend,
                                pend.componentIds[SelectedIndex(m).n + 1]))>>])
                ELSE Commit(c, ReturnReply(cl, InvalidSelection))
           ELSE Commit(c, [cl EXCEPT
                    !.pc = "router",
                    !.invoked = <<Invocation("RouterAgent", conv, TextRequest(m))>>])
    /\ UNCHANGED <<session, designs>>
    /\ UNCHANGED storeVars

\* the selection branch after `await EditorAgent.invoke(...)`
SelectionEditorReturns(c, out) ==
    /\ call[c].pc = "selection"
    /\ LET cl == Replied(Activation(c), "EditorAgent", out.content)
           lastAIMessage == LastAIMessage(cl.localConversation \o <<AIMessage(out.content)>>)
       IN  IF out.threw
           THEN Commit(c, CatchError(Activation(c)))
           ELSE Commit(c, ReturnReply([cl EXCEPT !.localPending = Null],
                                      IF lastAIMessage # Null THEN lastAIMessage.content
                                      ELSE UpdateCompleted))
    /\ UNCHANGED <<session, designs, calls>>
    /\ UNCHANGED storeVars

\* the route taken from the tool call alone, with no default
RouteOfToolCall(outcome) == outcome

\* route = toolCallMessage ? toolCall.args.route : "editor"
RouteOf(outcome) == IF outcome = "none" THEN "editor" ELSE outcome

\* the invocation a route starts, and the await it leaves the activation at
EnterRoute(cl, route) ==
    IF route = "editor"
    THEN [cl EXCEPT !.pc = "editor",
                    !.invoked = Append(@, Invocation("EditorAgent", cl.localConversation,
                                                     TextRequest(cl.message)))]
    ELSE IF route = "design"
    THEN [cl EXCEPT !.pc = "designLLM",
                    !.invoked = Append(@, Invocation("DesignAgent", cl.localConversation,
                                                     TextRequest(cl.message)))]
    ELSE IF route = "clarify"
    THEN [cl EXCEPT !.pc = "clarify",
                    !.invoked = Append(@, Invocation("ClarifierAgent", cl.localConversation,
                                                     TextRequest(cl.message)))]
    ELSE ReturnReply(cl, FallbackReply)

\* after `await RouterAgent.invoke(...)`
RouterReturns(c, outcome) ==
    /\ call[c].pc = "router"
    /\ IF outcome = "throw"
       THEN Commit(c, CatchError(Activation(c)))
       ELSE Commit(c, EnterRoute(Activation(c), RouteOf(outcome)))
    /\ UNCHANGED <<session, designs, calls>>
    /\ UNCHANGED storeVars

\* the editor route after `await EditorAgent.invoke(...)`
EditorReturns(c, out) ==
    /\ call[c].pc = "editor"
    /\ LET cl == Replied(Activation(c), "EditorAgent", out.content)
           lastAIMessage == LastAIMessage(cl.localConversation \o <<AIMessage(out.content)>>)
       IN  IF out.threw
           THEN Commit(c, CatchError(Activation(c)))
           ELSE IF LastIncludes(lastAIMessage, "need to clarify")
           THEN Commit(c, EnterRoute(cl, "clarify"))
           ELSE Commit(c, ReturnReply(cl, IF lastAIMessage # Null
                                          THEN lastAIMessage.content
                                          ELSE NoEditorResponse))
    /\ UNCHANGED <<session, designs, calls>>
    /\ UNCHANGED storeVars

\* localPending after the design and clarify routes' check for a selection prompt
PendingAfterAgent(cl, lastAIMessage) ==
    IF LastIncludes(lastAIMessage, "Please select")
    THEN extractOperationDetails(cl.message)
    ELSE cl.localPending

\* the design and clarify routes after the agent's final message
AfterAgent(cl, lastAIMessage, noResponse) ==
    ReturnReply([cl EXCEPT !.localPending = PendingAfterAgent(cl, lastAIMessage)],
                IF lastAIMessage # Null THEN lastAIMessage.content ELSE noResponse)

\* the clarify route after `await ClarifierAgent.invoke(...)`
ClarifierReturns(c, out) ==
    /\ call[c].pc = "clarify"
    /\ LET cl == Replied(Activation(c), "ClarifierAgent", out.content)
           lastAIMessage == LastAIMessage(cl.localConversation \o <<AIMessage(out.content)>>)
       IN  IF out.threw
           THEN Commit(c, CatchError(Activation(c)))
           ELSE Commit(c, AfterAgent(cl, lastAIMessage, NoClarifierResponse))
    /\ UNCHANGED <<session, designs, calls>>
    /\ UNCHANGED storeVars

\* ------------------------------------------------------------ DesignAgent
\* the supersteps one invoke of a compiled graph may take: no recursionLimit is
\* passed to compile() or invoke(), so the library's default holds
RecursionLimit == 25

\* a graph that goes on whatever the number of supersteps
NeverOutOfSteps(rounds) == FALSE

\* after `rounds` rounds of llmCall and tools, and one more llmCall, the tools node
\* would be a superstep beyond the limit: invoke rejects with GraphRecursionError
OutOfSteps(rounds) == 2 * rounds + 2 > RecursionLimit

\* callDesignModel: designLLM.invoke raises, or answers with tool calls
\* (shouldContinueDesign: "tools") or without (the graph ends and handleMessage
\* goes on with the final message); maxRounds caps the rounds a behaviour follows
CallDesignModel(c, out, toolCalls, maxRounds) ==
    /\ call[c].pc = "designLLM"
    /\ LET cl == Activation(c)
       IN  IF out.threw
           THEN Commit(c, CatchError(cl))
           ELSE IF toolCalls # <<>> /\ OutOfSteps(cl.rounds)
           THEN Commit(c, CatchError(cl))
           ELSE IF toolCalls # <<>>
           THEN /\ cl.rounds < maxRounds
                /\ Commit(c, [cl EXCEPT !.pc = "designTools",
                                        !.toolCalls = toolCalls,
                                        !.toolDone = {},
                                        !.agentMessages = Append(@, AIMessage(out.content))])
           ELSE Commit(c, AfterAgent(Replied(cl, "DesignAgent", out.content),
                            LastAIMessage(cl.localConversation \o cl.agentMessages
                                          \o <<AIMessage(out.content)>>),
                            NoDesignResponse))
    /\ UNCHANGED <<session, designs, calls>>
    /\ UNCHANGED storeVars

\* what one tool call of callDesignTools does to the designs table
DesignToolEffect(tc, d, ioOk) ==
    IF tc.name = "updateDesign"
    THEN updateDesign(tc.args.clientId, sanitizeDesignUpdates(tc.args.designUpdates), d, ioOk)
    ELSE [threw |-> FALSE, table |-> d, wrote |-> FALSE]

\* callDesignTools: one of the tool calls started by Promise.all settles; its
\* store statement, if it issues one, executes now.  After the last one the
\* graph goes back to llmCall.
DesignToolSettles(c, i, ioOk) ==
    /\ call[c].pc = "designTools"
    /\ i \in 1..Len(call[c].toolCalls)
    /\ i \notin call[c].toolDone
    /\ LET cl == Activation(c)
           tc == cl.toolCalls[i]
           res == DesignToolEffect(tc, designs, ioOk)
           done == cl.toolDone \cup {i}
           last == done = 1..Len(cl.toolCalls)
       IN  /\ designs' = res.table
           /\ Commit(c, [cl EXCEPT
                  !.toolDone = done,
                  !.writes = IF res.wrote
                             THEN Append(@, [clientId |-> tc.args.clientId,
                                             designUpdates |->
                                                sanitizeDesignUpdates(tc.args.designUpdates)])
                             ELSE @,
                  !.pc = IF last THEN "designLLM" ELSE "designTools",
                  !.rounds = IF last THEN @ + 1 ELSE @])
    /\ UNCHANGED <<session, calls>>
    /\ UNCHANGED storeVars

\* ------------------------------------------------------------ the caller
\* the caller keeps the returned history and pendingOperation to resend them
CallerStores(c) ==
    /\ call[c].pc = "returned"
    /\ session' = [session EXCEPT ![c] =
            [conversation |-> call[c].result.conversation,
             pendingOperation |-> call[c].result.pendingOperation,
             verbatim |-> session[c].verbatim]]
    /\ call' = [call EXCEPT ![c] = IdleCall]
    /\ UNCHANGED <<conversation, pendingOperation, designs, calls>>
    /\ UNCHANGED storeVars

\* chatController's catch: the exception becomes a 500 response, no state returned
CallerGetsError(c) ==
    /\ call[c].pc = "threw"
    /\ call' = [call EXCEPT ![c] = IdleCall]
    /\ UNCHANGED <<conversation, pendingOperation, session, designs, calls>>
    /\ UNCHANGED storeVars

\* one step of caller c, its inputs drawn from the given menus
Step(c, messages, toolCallMenu, maxRounds) ==
    \/ \E m \in messages : HandleMessage(c, m)
    \/ \E out \in Outcomes(EditorContents) : SelectionEditorReturns(c, out)
    \/ \E outcome \in RouterOutcomes : RouterReturns(c, outcome)
    \/ \E out \in Outcomes(EditorContents) : EditorReturns(c, out)
    \/ \E out \in Outcomes(ClarifierContents) : ClarifierReturns(c, out)
    \/ \E out \in Outcomes(DesignContents) : CallDesignModel(c, out, <<>>, maxRounds)
    \/ \E tcs \in toolCallMenu :
          CallDesignModel(c, [threw |-> FALSE, content |-> ""], tcs, maxRounds)
    \/ \E i \in 1..2, ioOk \in BOOLEAN : DesignToolSettles(c, i, ioOk)
    \/ CallerStores(c)
    \/ CallerGetsError(c)

\* one caller, its requests one after the other
Next == Step(1, Messages, DesignToolCalls, MaxRounds)

Spec == Init /\ [][Next]_vars

\* ------------------------------------------------------------ concurrent callers
ConcMessages == {"2", "Change Client 7 title"}

ConcToolCalls ==
    {<<ToolCall("updateDesign", "7", << <<"social icon style", "solid">> >>)>>}

\* two callers with states of their own; their requests overlap at every await
InitConc ==
    /\ conversation = <<>>
    /\ pendingOperation = Null
    /\ session \in {s \in [Callers -> InitialSessions] :
                        /\ s[1] # FreshSession
                        /\ s[2] = FreshSession}
    /\ call = [c \in Callers |-> IdleCall]
    /\ designs = InitialDesigns
    /\ calls = 0
    /\ components = InitialComponents
    /\ attachments = <<>>
    /\ uniquePair = TRUE
    /\ op = [r \in Requests |-> IdleOp]
    /\ ops = 0

NextConc == \E c \in Callers : Step(c, ConcMessages, ConcToolCalls, MaxRounds)

SpecConc == InitConc /\ [][NextConc]_vars

\* ------------------------------------------------------------ requests to their end
\* one caller whose DesignAgent turns go on for as long as the model asks for
\* tools; every invoke that was started resolves or rejects
LiveMessages == {"2", "Change Client 7 title"}

LiveToolCalls ==
    {<<ToolCall("updateDesign", "7", << <<"social icon style", "solid">> >>)>>,
     <<ToolCall("getClientDesign", "7", <<>>)>>}

NextLive == Step(1, LiveMessages, LiveToolCalls, RecursionLimit)

\* an await that is pending settles
Settles ==
    \/ \E out \in Outcomes(EditorContents) : SelectionEditorReturns(1, out)
    \/ \E outcome \in RouterOutcomes : RouterReturns(1, outcome)
    \/ \E out \in Outcomes(EditorContents) : EditorReturns(1, out)
    \/ \E out \in Outcomes(ClarifierContents) : ClarifierReturns(1, out)
    \/ \E out \in Outcomes(DesignContents) : CallDesignModel(1, out, <<>>, RecursionLimit)
    \/ \E tcs \in LiveToolCalls :
          CallDesignModel(1, [threw |-> FALSE, content |-> ""], tcs, RecursionLimit)
    \/ \E i \in 1..2, ioOk \in BOOLEAN : DesignToolSettles(1, i, ioOk)

\* the activation is at an await; this is ENABLED <<Settles>>_vars, since at each
\* await every outcome of the call awaited is a step of Settles and changes `call`
Awaiting ==
    call[1].pc \in {"selection", "router", "editor", "clarify", "designLLM", "designTools"}

\* weak fairness of Settles, its enabling condition written out
SpecLive ==
    Init /\ [][NextLive]_vars /\ ([]<>(~Awaiting) \/ []<><<Settles>>_vars)
\* ------------------------------------------------------------ EditorAgent tools
\* a tool result; hasRejected tells whether the result has a rejectedFields
\* member, hasDetails whether it has a details member (message in
\* deleteComponent), and component whether rows[0] of the UPDATE is a row
Failure(error) == [success |-> FALSE, error |-> error, hasRejected |-> FALSE,
                   rejectedFields |-> <<>>, component |-> FALSE,
                   hasDetails |-> FALSE, details |-> ""]

Success == [success |-> TRUE, error |-> "", hasRejected |-> FALSE,
            rejectedFields |-> <<>>, component |-> FALSE,
            hasDetails |-> FALSE, details |-> ""]

\* request r's tool call goes on as o
Proceed(r, o) == op' = [op EXCEPT ![r] = o]

\* the tool call ends with this result
Finish(o, result) == [o EXCEPT !.pc = "done", !.result = result]

\* a catch block: console.error(..., error) writes the error raised, and the
\* result is {success: false, error, details}
Caught(o, error, raised, details) ==
    Finish([o EXCEPT !.logged = Append(@, raised)],
           [Failure(error) EXCEPT !.hasDetails = TRUE, !.details = details])

\* the statement the request has just had executed
Issued(o, statement) == [o EXCEPT !.statements = Append(@, statement)]

\* a guard that never finds its result empty
NeverEmpty(map) == FALSE

\* Object.keys(map).length === 0
IsEmpty(map) == map = <<>>

\* updateComponent up to its first await: validation and sanitizeUpdates
StartUpdateComponent(o) ==
    LET updates == NormalizeUpdates(o.args.updates)
        guard == sanitizeUpdates(updates)
        guarded == [o EXCEPT !.updates = guard.sanitized, !.rejected = guard.rejected]
    IN  IF Falsy(o.args.clientId) THEN Finish(o, Failure("clientId is required"))
        ELSE IF Falsy(o.args.componentId) THEN Finish(o, Failure("componentId is required"))
        ELSE IF updates = <<>> THEN Finish(o, Failure("updates object is required"))
        ELSE IF IsEmpty(guard.sanitized)
        THEN Finish(guarded, [Failure("No valid fields to update")
                                  EXCEPT !.hasRejected = TRUE,
                                         !.rejectedFields = guard.rejected])
        ELSE [guarded EXCEPT !.pc = "precheck"]

\* deleteComponent up to its first await
StartDeleteComponent(o) ==
    IF Falsy(o.args.clientId) \/ Falsy(o.args.componentId)
    THEN Finish(o, Failure("clientId and componentId are required"))
    ELSE [o EXCEPT !.pc = "deleteCheck"]

\* addSecurityGroup up to its first await
StartAddSecurityGroup(o) ==
    IF \/ Falsy(o.args.clientId)
       \/ Falsy(o.args.componentId)
       \/ Falsy(o.args.security_group_title)
    THEN Finish(o, Failure("clientId, componentId, and security_group_title are required"))
    ELSE [o EXCEPT !.pc = "groupId"]

\* removeSecurityGroup up to its first await
StartRemoveSecurityGroup(o) ==
    IF \/ Falsy(o.args.clientId)
       \/ Falsy(o.args.componentId)
       \/ Falsy(o.args.security_group_title)
    THEN Finish(o, Failure("clientId, componentId, and security_group_title are required"))
    ELSE [o EXCEPT !.pc = "groupId"]

\* getComponent up to its first await: the SELECT is sent whatever the arguments
StartGetComponent(o) == [o EXCEPT !.pc = "get"]

\* the tool call up to its first await, by toolCall.name
StartTool(toolCall) ==
    LET o == [IdleOp EXCEPT !.name = toolCall.name, !.args = toolCall.args]
    IN  IF o.name = "updateComponent" THEN StartUpdateComponent(o)
        ELSE IF o.name = "deleteComponent" THEN StartDeleteComponent(o)
        ELSE IF o.name = "addSecurityGroup" THEN StartAddSecurityGroup(o)
        ELSE IF o.name = "removeSecurityGroup" THEN StartRemoveSecurityGroup(o)
        ELSE IF o.name = "getComponent" THEN StartGetComponent(o)
        ELSE [o EXCEPT !.pc = "design"]

\* callEditorTools / callDesignTools start one tool call of the last message
ToolStarts(r, toolCall) ==
    /\ op[r].pc = "idle"
    /\ ops < MaxOps
    /\ ops' = ops + 1
    /\ Proceed(r, StartTool(toolCall))
    /\ UNCHANGED <<components, attachments, uniquePair>>
    /\ UNCHANGED <<conversation, pendingOperation, session, call, designs, calls>>

\* updateComponent: the existence check has run
UpdatePrecheckSettles(r, ioOk, detail) ==
    /\ op[r].pc = "precheck"
    /\ LET o == Issued(op[r], "SELECT components")
           existingRows == Matching(components, o.args.clientId, o.args.componentId)
       IN  Proceed(r, IF ~ioOk THEN Caught(op[r], "Failed to update component", detail, detail)
                      ELSE IF existingRows = {} THEN Finish(o, Failure("not found"))
                      ELSE [o EXCEPT !.pc = "write"])
    /\ UNCHANGED <<components, attachments, uniquePair, ops>>
    /\ UNCHANGED <<conversation, pendingOperation, session, call, designs, calls>>

\* what updateComponent returns after its UPDATE
UpdateResult(rowCount) == [Success EXCEPT !.component = rowCount > 0]

\* updateComponent: the UPDATE built from the sanitized map has run
UpdateWriteSettles(r, ioOk, detail) ==
    /\ op[r].pc = "write"
    /\ LET built == BuildUpdate(op[r].args.clientId, op[r].args.componentId,
                                op[r].updates)
           o == [op[r] EXCEPT !.setClauses = built.setClauses, !.values = built.values]
           done == UpdateComponents(components, built.setClauses, built.values)
       IN  IF ~ioOk \/ done.threw
           THEN /\ LET raised == IF ioOk THEN RefusedMessage ELSE detail
                   IN  Proceed(r, Caught(o, "Failed to update component", raised, raised))
                /\ UNCHANGED components
           ELSE /\ Proceed(r, Finish(Issued(o, "UPDATE components"),
                                     UpdateResult(done.rowCount)))
                /\ components' = done.table
    /\ UNCHANGED <<attachments, uniquePair, ops>>
    /\ UNCHANGED <<conversation, pendingOperation, session, call, designs, calls>>

\* deleteComponent: the existence check has run
DeleteCheckSettles(r, ioOk, detail) ==
    /\ op[r].pc = "deleteCheck"
    /\ LET o == Issued(op[r], "SELECT components")
           rows == Matching(components, o.args.clientId, o.args.componentId)
       IN  Proceed(r, IF ~ioOk THEN Caught(op[r], "Internal Server Error", detail, detail)
                      ELSE IF rows = {} THEN Finish(o, Failure("not found"))
                      ELSE [o EXCEPT !.pc = "delete"])
    /\ UNCHANGED <<components, attachments, uniquePair, ops>>
    /\ UNCHANGED <<conversation, pendingOperation, session, call, designs, calls>>

\* deleteComponent: the DELETE has run
DeleteSettles(r, ioOk, detail) ==
    /\ op[r].pc = "delete"
    /\ LET o == op[r]
           done == DeleteComponents(components, o.args.componentId)
       IN  IF ~ioOk
           THEN /\ Proceed(r, Caught(o, "Internal Server Error", detail, detail))
                /\ UNCHANGED components
           ELSE /\ Proceed(r, Finish(Issued(o, "DELETE components"),
                                     IF done.rowCount = 0
                                     THEN Failure("Failed to delete component")
                                     ELSE Success))
                /\ components' = done.table
    /\ UNCHANGED <<attachments, uniquePair, ops>>
    /\ UNCHANGED <<conversation, pendingOperation, session, call, designs, calls>>

\* getSecurityGroupId(security_group_title, clientId): the id, or null
getSecurityGroupId(security_group_title, clientId) ==
    LET rows == {g \in SecurityGroups : /\ g.client_id = clientId
                                        /\ g.security_group_title = security_group_title}
    IN  IF rows = {} THEN NullId ELSE (CHOOSE g \in rows : TRUE).security_group_id

\* addSecurityGroup / removeSecurityGroup: getSecurityGroupId has settled; on a
\* failure it writes the error and raises one of its own wording, outside their
\* try blocks, which callEditorTools catches
GroupIdSettles(r, ioOk, detail) ==
    /\ op[r].pc = "groupId"
    /\ LET o == Issued(op[r], "SELECT security_groups")
           id == getSecurityGroupId(o.args.security_group_title, o.args.clientId)
       IN  Proceed(r, IF ~ioOk
                      THEN Caught(op[r], "Tool execution failed", detail,
                                  "Database error while fetching security group ID")
                      ELSE IF Falsy(id) THEN Finish(o, Failure("Security group does not exist"))
                      ELSE [o EXCEPT !.pc = IF o.name = "removeSecurityGroup"
                                            THEN "detachCheck" ELSE "attachCheck",
                                     !.security_group_id = id])
    /\ UNCHANGED <<components, attachments, uniquePair, ops>>
    /\ UNCHANGED <<conversation, pendingOperation, session, call, designs, calls>>

\* a check that looks at the component only
AttachedAny(table, componentId, security_group_id) ==
    {i \in DOMAIN table : table[i][1] = componentId}

\* the rows of component_security_groups for a component and a security group
Attached(table, componentId, security_group_id) ==
    {i \in DOMAIN table : table[i] = <<componentId, security_group_id>>}

\* addSecurityGroup: the check for an existing attachment has run
AttachCheckSettles(r, ioOk, detail) ==
    /\ op[r].pc = "attachCheck"
    /\ LET o == Issued(op[r], "SELECT component_security_groups")
           rows == Attached(attachments, o.args.componentId, o.security_group_id)
       IN  Proceed(r, IF ~ioOk THEN Caught(op[r], "Failed to add security group", detail, detail)
                      ELSE IF rows # {}
                      THEN Finish(o, Failure("Security group already exists for this component"))
                      ELSE [o EXCEPT !.pc = "attachInsert"])
    /\ UNCHANGED <<components, attachments, uniquePair, ops>>
    /\ UNCHANGED <<conversation, pendingOperation, session, call, designs, calls>>

\* INSERT INTO component_security_groups ... ON CONFLICT DO NOTHING: a conflict
\* arises only where the table declares the pair unique
InsertAttachment(table, componentId, security_group_id, unique) ==
    IF unique /\ Attached(table, componentId, security_group_id) # {}
    THEN table
    ELSE Append(table, <<componentId, security_group_id>>)

\* addSecurityGroup: the INSERT has run
AttachInsertSettles(r, ioOk, detail) ==
    /\ op[r].pc = "attachInsert"
    /\ LET o == op[r]
       IN  IF ~ioOk
           THEN /\ Proceed(r, Caught(o, "Failed to add security group", detail, detail))
                /\ UNCHANGED attachments
           ELSE /\ Proceed(r, [Issued(o, "INSERT component_security_groups")
                                  EXCEPT !.pc = "attachFlag"])
                /\ attachments' = InsertAttachment(attachments, o.args.componentId,
                                                   o.security_group_id, uniquePair)
    /\ UNCHANGED <<components, uniquePair, ops>>
    /\ UNCHANGED <<conversation, pendingOperation, session, call, designs, calls>>

\* UPDATE components SET is_secured = $1 WHERE component_id = $2
SetSecured(table, isSecured, componentId) ==
    [i \in DOMAIN table |->
        IF table[i] # Null /\ table[i].component_id = JsonString(componentId)
        THEN [table[i] EXCEPT !.is_secured = isSecured]
        ELSE table[i]]

\* addSecurityGroup: the UPDATE of is_secured has run
AttachFlagSettles(r, ioOk, detail) ==
    /\ op[r].pc = "attachFlag"
    /\ LET o == op[r]
       IN  IF ~ioOk
           THEN /\ Proceed(r, Caught(o, "Failed to add security group", detail, detail))
                /\ UNCHANGED components
           ELSE /\ Proceed(r, Finish(Issued(o, "UPDATE components"), Success))
                /\ components' = SetSecured(components, TRUE, o.args.componentId)
    /\ UNCHANGED <<attachments, uniquePair, ops>>
    /\ UNCHANGED <<conversation, pendingOperation, session, call, designs, calls>>

\* what getComponent / removeSecurityGroup return on success
GetResult(rows) == [success |-> TRUE, error |-> "", components |-> rows]

DetachResult(is_secured) == [success |-> TRUE, error |-> "", is_secured |-> is_secured]

\* getComponent: the SELECT has run
GetSettles(r, ioOk, detail) ==
    /\ op[r].pc = "get"
    /\ LET o == Issued(op[r], "SELECT components")
           rows == GetRows(components, o.args.clientId, o.args.componentId)
       IN  Proceed(r, IF ~ioOk THEN Caught(op[r], "Failed to retrieve component", detail, detail)
                      ELSE IF ~Falsy(o.args.componentId) /\ rows = {}
                      THEN Finish(o, Failure("not found"))
                      ELSE Finish([o EXCEPT !.rows = rows],
                                  GetResult({components[i] : i \in rows})))
    /\ UNCHANGED <<components, attachments, uniquePair, ops>>
    /\ UNCHANGED <<conversation, pendingOperation, session, call, designs, calls>>

\* removeSecurityGroup: the check for the attachment has run
DetachCheckSettles(r, ioOk, detail) ==
    /\ op[r].pc = "detachCheck"
    /\ LET o == Issued(op[r], "SELECT component_security_groups")
           rows == Attached(attachments, o.args.componentId, o.security_group_id)
       IN  Proceed(r, IF ~ioOk THEN Caught(op[r], "Failed to remove security group", detail, detail)
                      ELSE IF rows = {}
                      THEN Finish(o, Failure("Security group does not exist for this component"))
                      ELSE [o EXCEPT !.pc = "detachDelete"])
    /\ UNCHANGED <<components, attachments, uniquePair, ops>>
    /\ UNCHANGED <<conversation, pendingOperation, session, call, designs, calls>>

\* removeSecurityGroup: the DELETE has run
DetachDeleteSettles(r, ioOk, detail) ==
    /\ op[r].pc = "detachDelete"
    /\ LET o == op[r]
       IN  IF ~ioOk
           THEN /\ Proceed(r, Caught(o, "Failed to remove security group", detail, detail))
                /\ UNCHANGED attachments
           ELSE /\ Proceed(r, [Issued(o, "DELETE component_security_groups")
                                  EXCEPT !.pc = "detachCount"])
                /\ attachments' = DeleteAttachment(attachments, o.args.componentId,
                                                   o.security_group_id)
    /\ UNCHANGED <<components, uniquePair, ops>>
    /\ UNCHANGED <<conversation, pendingOperation, session, call, designs, calls>>

\* removeSecurityGroup: the SELECT of the remaining groups has run
DetachCountSettles(r, ioOk, detail) ==
    /\ op[r].pc = "detachCount"
    /\ LET o == Issued(op[r], "SELECT component_security_groups")
       IN  Proceed(r, IF ~ioOk THEN Caught(op[r], "Failed to remove security group", detail, detail)
                      ELSE [o EXCEPT !.pc = "detachFlag",
                                     !.rows = RemainingGroups(attachments,
                                                              o.args.componentId)])
    /\ UNCHANGED <<components, attachments, uniquePair, ops>>
    /\ UNCHANGED <<conversation, pendingOperation, session, call, designs, calls>>

\* removeSecurityGroup: the UPDATE of is_secured has run
DetachFlagSettles(r, ioOk, detail) ==
    /\ op[r].pc = "detachFlag"
    /\ LET o == op[r]
       IN  IF ~ioOk
           THEN /\ Proceed(r, Caught(o, "Failed to remove security group", detail, detail))
                /\ UNCHANGED components
           ELSE /\ Proceed(r, Finish(Issued(o, "UPDATE components"),
                                     DetachResult(o.rows # {})))
                /\ components' = SetSecured(components, o.rows # {}, o.args.componentId)
    /\ UNCHANGED <<attachments, uniquePair, ops>>
    /\ UNCHANGED <<conversation, pendingOperation, session, call, designs, calls>>

\* callDesignTools: an updateDesign tool call has settled
DesignUpdateSettles(r, ioOk, detail) ==
    /\ op[r].pc = "design"
    /\ LET o == op[r]
           done == DesignToolEffect(o, designs, ioOk)
       IN  /\ designs' = done.table
           /\ Proceed(r, IF done.threw
                          THEN Caught(o, "Tool execution failed",
                                      IF ioOk THEN "Failed to update design" ELSE detail,
                                      "Failed to update design")
                          ELSE Finish(IF done.wrote THEN Issued(o, "UPDATE designs") ELSE o,
                                      Success))
    /\ UNCHANGED <<components, attachments, uniquePair, ops>>
    /\ UNCHANGED <<conversation, pendingOperation, session, call, calls>>

\* the tool message is handed back; the request may go on to another tool call
ToolReturns(r) ==
    /\ op[r].pc = "done"
    /\ Proceed(r, IdleOp)
    /\ UNCHANGED <<components, attachments, uniquePair, ops>>
    /\ UNCHANGED <<conversation, pendingOperation, session, call, designs, calls>>

\* the store as it is before any request, the dispatcher at rest
InitStore ==
    /\ conversation = <<>>
    /\ pendingOperation = Null
    /\ session = [c \in Callers |-> FreshSession]
    /\ call = [c \in Callers |-> IdleCall]
    /\ designs = InitialDesigns
    /\ calls = 0
    /\ components = InitialComponents
    /\ attachments = <<>>
    /\ uniquePair \in BOOLEAN
    /\ op = [r \in Requests |-> IdleOp]
    /\ ops = 0

\* tool calls of two requests, each statement of theirs executing on its own
NextStore ==
    \E r \in Requests :
        \/ \E toolCall \in EditorToolCalls : ToolStarts(r, toolCall)
        \/ \E ioOk \in BOOLEAN, detail \in ErrorMessages : UpdatePrecheckSettles(r, ioOk, detail)
        \/ \E ioOk \in BOOLEAN, detail \in ErrorMessages : UpdateWriteSettles(r, ioOk, detail)
        \/ \E ioOk \in BOOLEAN, detail \in ErrorMessages : DeleteCheckSettles(r, ioOk, detail)
        \/ \E ioOk \in BOOLEAN, detail \in ErrorMessages : DeleteSettles(r, ioOk, detail)
        \/ \E ioOk \in BOOLEAN, detail \in ErrorMessages : GroupIdSettles(r, ioOk, detail)
        \/ \E ioOk \in BOOLEAN, detail \in ErrorMessages : AttachCheckSettles(r, ioOk, detail)
        \/ \E ioOk \in BOOLEAN, detail \in ErrorMessages : AttachInsertSettles(r, ioOk, detail)
        \/ \E ioOk \in BOOLEAN, detail \in ErrorMessages : AttachFlagSettles(r, ioOk, detail)
        \/ \E ioOk \in BOOLEAN, detail \in ErrorMessages : DesignUpdateSettles(r, ioOk, detail)
        \/ ToolReturns(r)

SpecStore == InitStore /\ [][NextStore]_vars

\* ------------------------------------------------------------ tool calls in turn
\* a tool call starts when no other is under way: one tool call per message, one
\* request after the other
SerialToolStarts(r, toolCall) ==
    /\ \A q \in Requests : op[q].pc = "idle"
    /\ ops < MaxSerialOps
    /\ ops' = ops + 1
    /\ Proceed(r, StartTool(toolCall))
    /\ UNCHANGED <<components, attachments, uniquePair>>
    /\ UNCHANGED <<conversation, pendingOperation, session, call, designs, calls>>

NextSerial ==
    \E r \in Requests :
        \/ \E toolCall \in SerialToolCalls : SerialToolStarts(r, toolCall)
        \/ \E ioOk \in BOOLEAN, detail \in ErrorMessages : GetSettles(r, ioOk, detail)
        \/ \E ioOk \in BOOLEAN, detail \in ErrorMessages : UpdatePrecheckSettles(r, ioOk, detail)
        \/ \E ioOk \in BOOLEAN, detail \in ErrorMessages : UpdateWriteSettles(r, ioOk, detail)
        \/ \E ioOk \in BOOLEAN, detail \in ErrorMessages : DeleteCheckSettles(r, ioOk, detail)
        \/ \E ioOk \in BOOLEAN, detail \in ErrorMessages : DeleteSettles(r, ioOk, detail)
        \/ \E ioOk \in BOOLEAN, detail \in ErrorMessages : GroupIdSettles(r, ioOk, detail)
        \/ \E ioOk \in BOOLEAN, detail \in ErrorMessages : AttachCheckSettles(r, ioOk, detail)
        \/ \E ioOk \in BOOLEAN, detail \in ErrorMessages : AttachInsertSettles(r, ioOk, detail)
        \/ \E ioOk \in BOOLEAN, detail \in ErrorMessages : AttachFlagSettles(r, ioOk, detail)
        \/ \E ioOk \in BOOLEAN, detail \in ErrorMessages : DetachCheckSettles(r, ioOk, detail)
        \/ \E ioOk \in BOOLEAN, detail \in ErrorMessages : DetachDeleteSettles(r, ioOk, detail)
        \/ \E ioOk \in BOOLEAN, detail \in ErrorMessages : DetachCountSettles(r, ioOk, detail)
        \/ \E ioOk \in BOOLEAN, detail \in ErrorMessages : DetachFlagSettles(r, ioOk, detail)
        \/ \E ioOk \in BOOLEAN, detail \in ErrorMessages : DesignUpdateSettles(r, ioOk, detail)
        \/ ToolReturns(r)

SpecSerial == InitStore /\ [][NextSerial]_vars

\* ------------------------------------------------------------ tool calls on one component
\* addSecurityGroup and removeSecurityGroup calls of one message (Promise.all) or
\* of two requests of client 7, on its component c1, which has security group
\* admins attached, and on c9, a component of client 8
SecuredToolCalls ==
    {[name |-> n,
      args |-> [clientId |-> "7", componentId |-> "c1", security_group_title |-> t]] :
        n \in {"addSecurityGroup", "removeSecurityGroup"}, t \in {"admins", "editors"}}
    \cup {[name |-> n,
           args |-> [clientId |-> "7", componentId |-> "c9",
                     security_group_title |-> "admins"]] :
            n \in {"addSecurityGroup", "removeSecurityGroup"}}

InitSecured ==
    /\ conversation = <<>>
    /\ pendingOperation = Null
    /\ session = [c \in Callers |-> FreshSession]
    /\ call = [c \in Callers |-> IdleCall]
    /\ designs = InitialDesigns
    /\ calls = 0
    /\ components = SetSecured(SearchableComponents, TRUE, "c1")
    /\ attachments = << <<"c1", "g1">> >>
    /\ uniquePair = TRUE
    /\ op = [r \in Requests |-> IdleOp]
    /\ ops = 0

NextSecured ==
    \E r \in Requests :
        \/ \E toolCall \in SecuredToolCalls : ToolStarts(r, toolCall)
        \/ \E ioOk \in BOOLEAN, detail \in ErrorMessages : GroupIdSettles(r, ioOk, detail)
        \/ \E ioOk \in BOOLEAN, detail \in ErrorMessages : AttachCheckSettles(r, ioOk, detail)
        \/ \E ioOk \in BOOLEAN, detail \in ErrorMessages : AttachInsertSettles(r, ioOk, detail)
        \/ \E ioOk \in BOOLEAN, detail \in ErrorMessages : AttachFlagSettles(r, ioOk, detail)
        \/ \E ioOk \in BOOLEAN, detail \in ErrorMessages : DetachCheckSettles(r, ioOk, detail)
        \/ \E ioOk \in BOOLEAN, detail \in ErrorMessages : DetachDeleteSettles(r, ioOk, detail)
        \/ \E ioOk \in BOOLEAN, detail \in ErrorMessages : DetachCountSettles(r, ioOk, detail)
        \/ \E ioOk \in BOOLEAN, detail \in ErrorMessages : DetachFlagSettles(r, ioOk, detail)
        \/ ToolReturns(r)

SpecSecured == InitSecured /\ [][NextSecured]_vars

\* ------------------------------------------------------------ ClarifierAgent tools
\* what searchComponent returns on success
SearchResult(found) == [success |-> TRUE, error |-> "", components |-> found]

\* callClarifierTools starts one tool call of the last message: the criteria of a
\* call named searchComponent are normalized, and whatever the call's name
\* searchComponent is invoked with its args, builds its statement and sends it
SearchStarts(r, toolCall) ==
    /\ op[r].pc = "idle"
    /\ ops < MaxOps
    /\ ops' = ops + 1
    /\ LET criteria == IF toolCall.name = "searchComponent"
                       THEN normalizeCriteria(toolCall.args.criteria)
                       ELSE toolCall.args.criteria
           built == SearchStatement(toolCall.args.clientId, criteria)
       IN  Proceed(r, [IdleOp EXCEPT !.name = toolCall.name,
                                     !.args = toolCall.args,
                                     !.updates = criteria,
                                     !.setClauses = built.clauses,
                                     !.values = built.values,
                                     !.pc = "search"])
    /\ UNCHANGED <<components, attachments, uniquePair>>
    /\ UNCHANGED <<conversation, pendingOperation, session, call, designs, calls>>

\* searchComponent: the SELECT has run
SearchSettles(r, ioOk, detail) ==
    /\ op[r].pc = "search"
    /\ LET o == op[r]
           done == SearchComponents(components, o.setClauses, o.values)
       IN  Proceed(r, IF ~ioOk \/ done.threw
                      THEN LET raised == IF ioOk THEN RefusedMessage ELSE detail
                           IN  Caught(o, "Failed to search components", raised, raised)
                      ELSE Finish([Issued(o, "SELECT components") EXCEPT !.rows = done.rows],
                                  SearchResult(FoundComponents(components, done.rows))))
    /\ UNCHANGED <<components, attachments, uniquePair, ops>>
    /\ UNCHANGED <<conversation, pendingOperation, session, call, designs, calls>>

\* the store as searchComponent finds it, the dispatcher at rest
InitSearch ==
    /\ conversation = <<>>
    /\ pendingOperation = Null
    /\ session = [c \in Callers |-> FreshSession]
    /\ call = [c \in Callers |-> IdleCall]
    /\ designs = InitialDesigns
    /\ calls = 0
    /\ components = SearchableComponents
    /\ attachments = <<>>
    /\ uniquePair = TRUE
    /\ op = [r \in Requests |-> IdleOp]
    /\ ops = 0

\* the searches of one message (Promise.all) or of two requests, side by side
NextSearch ==
    \E r \in Requests :
        \/ \E toolCall \in ClarifierToolCalls : SearchStarts(r, toolCall)
        \/ \E ioOk \in BOOLEAN, detail \in ErrorMessages : SearchSettles(r, ioOk, detail)
        \/ ToolReturns(r)

SpecSearch == InitSearch /\ [][NextSearch]_vars

\* ------------------------------------------------------------ properties
\* the integer a turn text starts with, white space aside, or NaN: the list entry
\* the user named
LeadingInteger(m) ==
    CASE m = "2" -> Num(2) [] m = "3" -> Num(3) [] m = " 1 " -> Num(1)
      [] m = "0" -> Num(0) [] m = "-1" -> Num(0 - 1) [] m = "2nd" -> Num(2)
      [] OTHER -> NaN

\* m names one of the entries 1..n of a list of n candidates
IsIndex(m, n) == ~LeadingInteger(m).nan /\ LeadingInteger(m).n \in 1..n

\* the received state is AwaitingSelection: more than one remembered candidate
AwaitingSelection(cl) ==
    /\ cl.conversationArg # Null
    /\ cl.pendingArg # Null
    /\ Len(cl.pendingArg.componentIds) > 1

\* the candidates the last agent turn of a history enumerates
LastListed(history) ==
    IF history = Null \/ history = <<>> THEN <<>>
    ELSE ListedIds(history[Len(history)].content)

\* C1: from Idle, a turn handled by the clarify route whose reply lists N > 1
\* candidates returns a pendingOperation holding those N ids in listed order; and
\* when that state is replayed verbatim with the message "k", 1 <= k <= N, the turn
\* is a selection: the first agent invoked is EditorAgent, asked for the k-th
\* listed component.
C1_Disambiguation ==
    \A c \in Callers :
        LET cl == call[c]
            listed == LastListed(cl.conversationArg)
        IN  /\ (/\ cl.pc = "returned"
                /\ ~cl.caught
                /\ cl.pendingArg = Null
                /\ cl.replies # <<>>
                /\ cl.replies[Len(cl.replies)].agent = "ClarifierAgent"
                /\ Len(ListedIds(cl.result.reply)) > 1)
               => /\ cl.result.pendingOperation # Null
                  /\ cl.result.pendingOperation.componentIds = ListedIds(cl.result.reply)
            /\ (/\ cl.pc \notin {"idle", "threw"}
                /\ session[c].verbatim
                /\ Len(listed) > 1
                /\ IsIndex(cl.message, Len(listed)))
               => /\ cl.invoked # <<>>
                  /\ cl.invoked[1].agent = "EditorAgent"
                  /\ cl.invoked[1].request.kind = "template"
                  /\ cl.invoked[1].request.componentId =
                        listed[LeadingInteger(cl.message).n]

\* C2: in a session that started with pendingOperation = null and resends what it
\* received, every returned pendingOperation is null or has more than one candidate.
C2_PendingOnlyWhileAmbiguous ==
    \A c \in Callers :
        (call[c].pc = "returned" /\ session[c].verbatim)
            => \/ call[c].result.pendingOperation = Null
               \/ Len(call[c].result.pendingOperation.componentIds) > 1

\* C3: in AwaitingSelection a message naming entry k, 1 <= k <= N, invokes EditorAgent
\* once, with componentIds[k-1] and the remembered clientId and updates, and no
\* other agent (the router is not asked); when that invocation resolves, the
\* returned pendingOperation is null.
C3_ValidSelection ==
    \A c \in Callers :
        LET cl == call[c]
            p == cl.pendingArg
        IN  (/\ cl.pc \notin {"idle", "threw"}
             /\ AwaitingSelection(cl)
             /\ IsIndex(cl.message, Len(p.componentIds)))
            => /\ cl.pc \in {"selection", "returned"}
               /\ cl.invoked =
                    <<Invocation("EditorAgent", cl.conversationArg,
                        [kind |-> "template",
                         text |-> "Update component with",
                         clientId |-> p.clientId,
                         componentId |-> p.componentIds[LeadingInteger(cl.message).n],
                         updates |-> p.updates])>>
               /\ (cl.pc = "returned" /\ ~cl.caught)
                    => (cl.result.pendingOperation = Null /\ Len(cl.replies) = 1)

C3_Witness ==
    \E c \in Callers :
        /\ call[c].pc = "returned"
        /\ ~call[c].caught
        /\ AwaitingSelection(call[c])
        /\ Len(call[c].pendingArg.componentIds) = 3
        /\ call[c].message = "3"
        /\ call[c].result.pendingOperation = Null

RequestedOperation(request) ==
    IF request.text = "Update component with" THEN "update"
    ELSE IF request.text = "Delete component with" THEN "delete"
    ELSE "get"

\* C5: on a valid selection the request sent to EditorAgent asks for the remembered
\* operation: update, delete or get.
C5_RememberedOperation ==
    \A c \in Callers :
        LET cl == call[c]
        IN  (/\ cl.pc \in {"selection", "returned"}
             /\ AwaitingSelection(cl)
             /\ cl.invoked # <<>>)
            => RequestedOperation(cl.invoked[1].request) = cl.pendingArg.operation

\* the editor route was taken and EditorAgent's final reply asks for clarification
EditorAskedToClarify(cl) ==
    /\ Len(cl.invoked) >= 2
    /\ cl.invoked[1].agent = "RouterAgent"
    /\ cl.invoked[2].agent = "EditorAgent"
    /\ cl.replies # <<>>
    /\ cl.replies[1].agent = "EditorAgent"
    /\ Includes(Chars(cl.replies[1].content), Chars("need to clarify"))

\* C6: when the editor route's final reply asks for clarification, the same
\* activation invokes ClarifierAgent once, with the same turn text and history, and
\* never DesignAgent; when ClarifierAgent resolves, its reply is the one returned.
C6_SecondaryEscape ==
    \A c \in Callers :
        LET cl == call[c]
        IN  EditorAskedToClarify(cl)
            => /\ cl.pc \in {"clarify", "returned"}
               /\ cl.invoked =
                    <<Invocation("RouterAgent", cl.conversationArg, TextRequest(cl.message)),
                      Invocation("EditorAgent", cl.conversationArg, TextRequest(cl.message)),
                      Invocation("ClarifierAgent", cl.conversationArg,
                                 TextRequest(cl.message))>>
               /\ (cl.pc = "returned" /\ ~cl.caught)
                    => /\ Len(cl.replies) = 2
                       /\ cl.replies[2].agent = "ClarifierAgent"
                       /\ cl.result.reply = cl.replies[2].content
                       /\ cl.result.reply # cl.replies[1].content

C6_Witness ==
    \E c \in Callers :
        /\ EditorAskedToClarify(call[c])
        /\ call[c].pc = "returned"
        /\ ~call[c].caught
        /\ call[c].result.reply = "Please select 1) c1 2) c2"

\* C7: whatever path handleMessage returns by, the returned history is the received
\* one followed by the user turn and the agent turn carrying the returned reply, and
\* the array the caller passed in is as it was.
C7_HistoryAppendOnly ==
    \A c \in Callers :
        call[c].pc = "returned"
            => /\ call[c].result.conversation =
                    session[c].conversation
                        \o <<HumanMessage(call[c].message),
                             AIMessage(call[c].result.reply)>>
               /\ call[c].conversationArg = session[c].conversation

C7_Witness ==
    \E c \in Callers :
        /\ call[c].pc = "returned"
        /\ call[c].caught
        /\ Len(session[c].conversation) = 2
        /\ Len(call[c].result.conversation) = 4

\* C8: handleMessage never raises: every activation ends by returning, and when a
\* collaborator failed the returned pendingOperation is the received one.
C8_NothingThrows ==
    \A c \in Callers :
        /\ call[c].pc # "threw"
        /\ (call[c].pc = "returned" /\ call[c].caught)
            => /\ call[c].result.reply = ErrorReply
               /\ call[c].result.pendingOperation = call[c].pendingArg

\* the replies handleMessage words itself
FixedReplies ==
    {UpdateCompleted, InvalidSelection, NoEditorResponse, NoDesignResponse,
     NoClarifierResponse, FallbackReply, ErrorReply}

\* C9: with requests of several callers overlapping, the module-scope conversation
\* and pendingOperation are never written, every agent an activation invokes gets
\* that activation's own history, and what it returns is made of its own arguments
\* and of the replies its own invocations resolved with.
C9_CallsIndependent ==
    /\ conversation = <<>>
    /\ pendingOperation = Null
    /\ \A c \in Callers :
        LET cl == call[c]
        IN  cl.pc \notin {"idle", "threw"}
            => /\ \A i \in 1..Len(cl.invoked) : cl.invoked[i].history = cl.conversationArg
               /\ cl.pc = "returned"
                    => /\ cl.result.conversation =
                            cl.conversationArg
                                \o <<HumanMessage(cl.message), AIMessage(cl.result.reply)>>
                       /\ cl.result.pendingOperation \in
                            {cl.pendingArg, Null, extractOperationDetails(cl.message)}
                       /\ cl.result.reply \in
                            FixedReplies
                                \cup {cl.replies[i].content : i \in 1..Len(cl.replies)}

C9_Witness ==
    \E c \in Callers, d \in Callers :
        /\ c # d
        /\ call[c].pc = "returned"
        /\ call[c].pendingArg # call[d].pendingArg
        /\ call[d].pc \in {"router", "editor", "clarify", "designLLM", "designTools"}
        /\ call[c].result.pendingOperation # Null

\* the turn text is an explicit yes
Affirmative(m) == Lower(Trim(Chars(m))) = Chars("yes")

\* the last turn of the history is an agent turn asking to confirm a restated change
Restated(history) ==
    /\ history # Null
    /\ history # <<>>
    /\ history[Len(history)].type = "ai"
    /\ Includes(Chars(history[Len(history)].content), Chars("Should I proceed"))

\* C10: a style write is applied only in a turn whose preceding agent turn restated
\* the change and whose user turn is an explicit yes.
C10_ConfirmedWritesOnly ==
    \A c \in Callers :
        call[c].writes # <<>>
            => (Restated(call[c].conversationArg) /\ Affirmative(call[c].message))
\* ------------------------------------------------------------ record updates
\* cs starts with the characters of prefix
StartsWith(cs, prefix) ==
    Len(prefix) <= Len(cs) /\ SubSeq(cs, 1, Len(prefix)) = prefix

\* the path is an identity or type field of the guard's list, or lies under one
ProtectedPath(path) ==
    \E f \in {"clientId", "componentId", "component_type", "library_id"} :
        \/ Chars(path) = Chars(f)
        \/ StartsWith(Chars(path), Chars(f) \o <<".">>)

\* the canonical path a raw key of the model resolves to (the key itself when it
\* names no synonym)
CanonicalPath(rawKey) ==
    CASE rawKey = "title" -> "props.title"
      [] rawKey = "url" -> "link_props.url"
      [] OTHER -> rawKey

\* a raw key the guard has to refuse, as written or as resolved
MustReject(rawKey) == ProtectedPath(rawKey) \/ ProtectedPath(CanonicalPath(rawKey))

\* request r runs updateComponent and has passed its guard
Guarded(r) ==
    /\ op[r].name = "updateComponent"
    /\ op[r].pc \in {"precheck", "write", "done"}
    /\ ~Falsy(op[r].args.clientId)
    /\ ~Falsy(op[r].args.componentId)
    /\ op[r].args.updates # <<>>

C12_IdentityUnaltered ==
    [][\A r \in Requests :
          (op[r].name = "updateComponent" /\ op[r].pc = "write" /\ op'[r].pc = "done")
          => \A i \in DOMAIN components :
                components[i] # Null
                => /\ components'[i] # Null
                   /\ components'[i].client_id = components[i].client_id
                   /\ components'[i].component_id = components[i].component_id
                   /\ components'[i].component_type = components[i].component_type]_vars

\* C13: whenever updateComponent has dropped keys of its update map, its result
\* carries rejectedFields listing the dropped keys.
C13_RejectedReported ==
    \A r \in Requests :
        (Guarded(r) /\ op[r].pc = "done" /\ op[r].rejected # <<>>)
            => /\ op[r].result.hasRejected
               /\ op[r].result.rejectedFields = op[r].rejected

\* C14: an updateComponent call whose update map is empty, or has only keys the
\* guard refuses, ends at once with an error outcome and no statement sent to the
\* store, so the components stay as they were.
C14_EmptyAllowedSet ==
    \A r \in Requests :
        (/\ op[r].name = "updateComponent"
         /\ op[r].pc # "idle"
         /\ \A i \in DOMAIN op[r].args.updates : MustReject(op[r].args.updates[i][1]))
            => /\ op[r].pc = "done"
               /\ ~op[r].result.success
               /\ op[r].statements = <<>>
               /\ op[r].setClauses = <<>>

C14_Witness ==
    \E r \in Requests :
        /\ op[r].name = "updateComponent"
        /\ op[r].pc = "done"
        /\ Len(op[r].args.updates) = 2
        /\ op[r].result.error = "No valid fields to update"
        /\ op[r].result.hasRejected
        /\ op[r].result.rejectedFields = <<"component_type.x", "clientId">>
        /\ components = InitialComponents
\* the number of dots in a path
DotCount(path) == Cardinality({i \in 1..Len(Chars(path)) : Chars(path)[i] = "."})

\* the characters of a path before / after its only dot
BeforeDot(path) ==
    LET cs == Chars(path)
        d == CHOOSE i \in 1..Len(cs) : cs[i] = "."
    IN  SubSeq(cs, 1, d - 1)

AfterDot(path) ==
    LET cs == Chars(path)
        d == CHOOSE i \in 1..Len(cs) : cs[i] = "."
    IN  SubSeq(cs, d + 1, Len(cs))

\* the instruction the Update Compiler is to emit for one entry of the allowed map
CompilesTo(path, value, clause) ==
    IF DotCount(path) = 0 /\ value.object
    THEN clause.kind = "merge" /\ clause.column = path
    ELSE IF DotCount(path) = 1
    THEN /\ clause.kind = "jsonb_set"
         /\ Chars(clause.column) = BeforeDot(path)
         /\ Chars(clause.key) = AfterDot(path)
    ELSE clause.kind = "direct" /\ clause.column = path

\* C15: every SET clause updateComponent builds is the variant its entry calls for:
\* a document merge for an undotted path with an object value (whatever the
\* column), a single-key set for a path with exactly one dot, a plain assignment
\* of the path otherwise.
C15_CompilerVariant ==
    \A r \in Requests :
        \A k \in DOMAIN op[r].setClauses :
            CompilesTo(op[r].updates[k][1], op[r].updates[k][2], op[r].setClauses[k])

\* the k-th SET clause is built from the k-th entry and bound to its value
BoundInOrder(o) ==
    /\ Len(o.setClauses) = Len(o.updates)
    /\ Len(o.values) = Len(o.updates) + 2
    /\ \A k \in DOMAIN o.setClauses :
        /\ o.setClauses[k].param = k + 2
        /\ o.values[k + 2].value = o.updates[k][2]
        /\ StartsWith(Chars(o.updates[k][1]), Chars(o.setClauses[k].column))

\* the clause's assignment shows in the row after the statement
TookEffect(clause, value, after) ==
    IF clause.kind = "direct"
    THEN after[clause.column] = (IF value.object THEN Column(value.doc) ELSE value)
    ELSE IF clause.kind = "jsonb_set"
    THEN /\ ~after[clause.column].null
         /\ clause.key \in DOMAIN after[clause.column].doc
         /\ after[clause.column].doc[clause.key] = value
    ELSE /\ ~after[clause.column].null
         /\ \A key \in DOMAIN value.doc :
                /\ key \in DOMAIN after[clause.column].doc
                /\ after[clause.column].doc[key] = value.doc[key]

\* request r's UPDATE executes in this step
UpdateExecutes(r) ==
    op[r].name = "updateComponent" /\ op[r].pc = "write" /\ op'[r].pc = "done"

\* the step of r's UPDATE changes nothing, or shows every clause in every row addressed
AllOrNone(r) ==
    \/ components' = components
    \/ \A i \in DOMAIN components :
          (/\ components[i] # Null
           /\ components[i].client_id = JsonString(op[r].args.clientId)
           /\ components[i].component_id = JsonString(op[r].args.componentId))
          => \A k \in DOMAIN op'[r].setClauses :
                TookEffect(op'[r].setClauses[k], op'[r].updates[k][2], components'[i])

\* C16: updateComponent builds one SET clause per entry of the allowed map, in the
\* map's order, the k-th bound to the k-th value, and its UPDATE applies all of
\* them or none.
C16_OrderedAtomicWrite ==
    /\ [](\A r \in Requests : op[r].setClauses # <<>> => BoundInOrder(op[r]))
    /\ [][\A r \in Requests : UpdateExecutes(r) => AllOrNone(r)]_vars

C16_Witness ==
    \E r \in Requests :
        /\ op[r].pc = "done"
        /\ op[r].result.success
        /\ Len(op[r].setClauses) = 2
        /\ components[1].props.doc["title"] = JsonString("Home")
        /\ ~components[1].link_props.null
        /\ components[1].link_props.doc["url"] = JsonString("u")

\* every key of the document but the one named is as before, and a column that
\* was null holds the named key only
OthersKept(before, after, key) ==
    /\ ~after.null
    /\ DOMAIN after.doc = (IF before.null THEN {} ELSE DOMAIN before.doc) \cup {key}
    /\ \A k \in DOMAIN after.doc \ {key} : after.doc[k] = before.doc[k]

\* r's statement sets the single key column.key to value in the rows it addresses
SingleKeyWrite(r) ==
    /\ UpdateExecutes(r)
    /\ components' # components
    /\ Len(op[r].updates) = 1
    /\ DotCount(op[r].updates[1][1]) = 1

\* C17: an update of one key of a document column stores the new value at that
\* key and keeps every other key of the column and every other column of the row;
\* a column that was null is created holding that key only.  The same holds of
\* updateDesign's column merge.
C17_MergeNotReplace ==
    [][/\ \A r \in Requests :
            SingleKeyWrite(r) =>
                LET path == op[r].updates[1][1]
                    column == StringOf(BeforeDot(path))
                    key == StringOf(AfterDot(path))
                IN  \A i \in DOMAIN components :
                        IF i \in {j \in DOMAIN components :
                                    /\ components[j] # Null
                                    /\ components[j].client_id = JsonString(op[r].args.clientId)
                                    /\ components[j].component_id =
                                            JsonString(op[r].args.componentId)}
                        THEN /\ components'[i][column].doc[key] = op[r].updates[1][2]
                             /\ OthersKept(components[i][column], components'[i][column], key)
                             /\ \A f \in DOMAIN components[i] \ {column} :
                                    components'[i][f] = components[i][f]
                        ELSE components'[i] = components[i]
       /\ \A r \in Requests :
            (op[r].pc = "design" /\ op'[r].pc = "done" /\ designs' # designs) =>
                LET clientId == op[r].args.clientId
                    column == IF op[r].args.designUpdates[1][1] = "card radius"
                              THEN "card_design" ELSE "header_design"
                    key == IF column = "card_design" THEN "radius"
                           ELSE "social-icon-style"
                IN  /\ designs'[clientId][column].doc[key] = op[r].args.designUpdates[1][2]
                    /\ OthersKept(designs[clientId][column], designs'[clientId][column], key)
                    /\ \A f \in DOMAIN designs[clientId] \ {column} :
                            designs'[clientId][f] = designs[clientId][f]]_vars

C17_Witness ==
    /\ components[1] # Null
    /\ components[1].props = Column([k \in {"title", "caption"} |->
            IF k = "title" THEN JsonString("Home") ELSE JsonString("Cap")])
    /\ components[2] # Null
    /\ components[2].props = Column([k \in {"title"} |-> JsonString("Home")])
    /\ \E r \in Requests : op[r].pc = "done" /\ op[r].result.success
\* no component has ever been stored under this pair of ids
NeverStored(clientId, componentId) ==
    \A i \in DOMAIN InitialComponents :
        \/ InitialComponents[i].client_id # JsonString(clientId)
        \/ InitialComponents[i].component_id # JsonString(componentId)

\* the statements of a tool call that are not reads
WriteStatements(o) ==
    {i \in DOMAIN o.statements :
        o.statements[i] \notin {"SELECT components", "SELECT security_groups",
                                 "SELECT component_security_groups"}}

\* C18: an update or delete that ends with the not-found error has sent no write;
\* and one addressed to a pair under which no component exists never gets past its
\* existence check, ends without success, and with the not-found error once the
\* check has run.
C18_ExistencePrecheck ==
    \A r \in Requests :
        (op[r].name \in {"updateComponent", "deleteComponent"} /\ op[r].pc # "idle")
        => /\ (op[r].pc = "done" /\ op[r].result.error = "not found")
                => WriteStatements(op[r]) = {}
           /\ NeverStored(op[r].args.clientId, op[r].args.componentId)
                => /\ op[r].pc \in {"precheck", "deleteCheck", "done"}
                   /\ op[r].pc = "done"
                        => /\ ~op[r].result.success
                           /\ WriteStatements(op[r]) = {}
                           /\ op[r].statements # <<>> => op[r].result.error = "not found"

C18_Witness ==
    \E r \in Requests, q \in Requests :
        /\ op[r].name = "updateComponent"
        /\ op[q].name = "deleteComponent"
        /\ op[r].args.componentId = "c3"
        /\ op[q].args.componentId = "c3"
        /\ op[r].pc = "done"
        /\ op[q].pc = "done"
        /\ op[r].result.error = "not found"
        /\ op[q].result.error = "not found"
        /\ components = InitialComponents

\* C19: updateComponent reports success only for an UPDATE that changed a row.
C19_VanishedSubject ==
    \A r \in Requests :
        (op[r].name = "updateComponent" /\ op[r].pc = "done" /\ op[r].result.success)
            => op[r].result.component

\* the rows of component_security_groups attaching the group to the component
AttachmentRows(componentId, security_group_id) ==
    {i \in DOMAIN attachments : attachments[i] = <<componentId, security_group_id>>}

\* C20: an attach that finds its security group already attached (its check has
\* run and found the row) ends in success, and
\* there is never more than one attachment row for a component and a group.
C20_AttachIdempotent ==
    /\ \A r \in Requests :
        (/\ op[r].name = "addSecurityGroup"
         /\ op[r].pc = "done"
         /\ op[r].statements = <<"SELECT security_groups",
                                  "SELECT component_security_groups">>
         /\ AttachmentRows(op[r].args.componentId, op[r].security_group_id) # {}
         /\ op[r].result.error # "Failed to add security group")
            => op[r].result.success
    /\ \A i, j \in DOMAIN attachments : attachments[i] = attachments[j] => i = j

\* ------------------------------------------------------------ security groups, search
\* the component has at least one row in component_security_groups
HasAttachment(componentId) ==
    \E i \in DOMAIN attachments : attachments[i][1] = componentId

\* no tool call is between two of its statements
Quiescent == \A r \in Requests : op[r].pc \in {"idle", "done"}

\* C21: with tool calls run one at a time, whenever no call is under way every
\* component's is_secured equals "the component has at least one security group",
\* and a successful removeSecurityGroup returns that same value.
C21_DerivedFlag ==
    /\ Quiescent =>
          \A i \in DOMAIN components :
              components[i] # Null
              => components[i].is_secured = HasAttachment(components[i].component_id.s)
    /\ \A r \in Requests :
          (/\ op[r].name = "removeSecurityGroup"
           /\ op[r].pc = "done"
           /\ op[r].result.success)
              => op[r].result.is_secured = HasAttachment(op[r].args.componentId)

\* the security groups of this title that the client has defined
GroupsNamed(clientId, security_group_title) ==
    {g \in SecurityGroups : /\ g.client_id = clientId
                            /\ g.security_group_title = security_group_title}

\* the tool call is an attach or detach that cannot be carried out: an argument
\* is missing, the client has no group of that title, or the group to detach is
\* not attached to the component
CannotBeCarriedOut(o) ==
    /\ o.name \in {"addSecurityGroup", "removeSecurityGroup"}
    /\ \/ o.args.clientId = ""
       \/ o.args.componentId = ""
       \/ o.args.security_group_title = ""
       \/ GroupsNamed(o.args.clientId, o.args.security_group_title) = {}
       \/ /\ o.name = "removeSecurityGroup"
          /\ \A g \in GroupsNamed(o.args.clientId, o.args.security_group_title) :
                \A i \in DOMAIN attachments :
                    attachments[i] # <<o.args.componentId, g.security_group_id>>

\* every component's is_secured
Flags == [i \in DOMAIN components |->
            IF components[i] = Null THEN FALSE ELSE components[i].is_secured]

\* C22: an attach or detach that cannot be carried out (identifier or title
\* missing, title not defined for the client, detach of a group that is not
\* attached) never gets beyond its checks: each of its steps leaves the
\* attachments and every is_secured flag as they were, and it ends with
\* success: false and an error text.
C22_TagOperationRefused ==
    [][\A r \in Requests :
          (/\ op'[r] # op[r]
           /\ op[r].pc \in {"idle", "groupId", "detachCheck"}
           /\ CannotBeCarriedOut(op'[r]))
          => /\ attachments' = attachments
             /\ Flags' = Flags
             /\ op'[r].pc \in {"groupId", "detachCheck", "done"}
             /\ op'[r].pc = "done"
                => ~op'[r].result.success /\ op'[r].result.error # ""]_vars

C22_Witness ==
    \E r \in Requests :
        /\ op[r].name = "removeSecurityGroup"
        /\ op[r].args.security_group_title = "editors"
        /\ op[r].pc = "done"
        /\ op[r].result.error = "Security group does not exist for this component"
        /\ attachments = << <<"c1", "g1">> >>
        /\ components[1].is_secured

\* the tool call lacks the client id, or lacks the component id that an update,
\* delete, attach or detach needs
MissingIdentifier(o) ==
    \/ o.args.clientId = ""
    \/ /\ o.name \in {"updateComponent", "deleteComponent", "addSecurityGroup",
                       "removeSecurityGroup"}
       /\ o.args.componentId = ""

\* C26: a tool call (getComponent, updateComponent, deleteComponent,
\* addSecurityGroup, removeSecurityGroup, updateDesign) without a client id, and
\* an update, delete, attach or detach without a component id, sends no write to
\* the store and ends with an error outcome.
C26_MissingIdentifier ==
    \A r \in Requests :
        (op[r].pc # "idle" /\ MissingIdentifier(op[r]))
            => /\ WriteStatements(op[r]) = {}
               /\ op[r].pc = "done" => ~op[r].result.success

\* the canonical path sanitizeDesignUpdates finds for a raw key, or NullId
ResolvedStylePath(key) ==
    IF designUpdateFieldMap(key) # NullId THEN designUpdateFieldMap(key)
    ELSE IF designFuseSearch(key) # <<>> THEN designUpdateFieldMap(designFuseSearch(key)[1])
    ELSE NullId

\* the raw keys of a style update that have no canonical path, in their order
UnresolvedStyleKeys(designUpdates) ==
    LET unresolved == SelectSeq(designUpdates,
                                LAMBDA entry : ResolvedStylePath(entry[1]) = NullId)
    IN  [i \in DOMAIN unresolved |-> unresolved[i][1]]

\* C28: an updateDesign call that names raw keys with no canonical path reports
\* exactly those keys in rejectedFields of its result, goes on with the resolved
\* keys, and fails only when no resolved key is left.
C28_UnresolvedReported ==
    \A r \in Requests :
        (/\ op[r].name = "updateDesign"
         /\ op[r].pc = "done"
         /\ UnresolvedStyleKeys(op[r].args.designUpdates) # <<>>)
            => /\ op[r].result.hasRejected
               /\ op[r].result.rejectedFields
                     = UnresolvedStyleKeys(op[r].args.designUpdates)

\* a container.subkey pair whose container is a declared document column
WellFormedStylePath(path) ==
    LET parts == SplitDots(Chars(path))
    IN  /\ Len(parts) = 2
        /\ \E i \in DOMAIN JSONB_FIELDS : JSONB_FIELDS[i] = parts[1]
        /\ parts[2] # ""

\* C29: every canonical path that sanitizeDesignUpdates produces for a raw key of
\* an updateDesign call is a container.subkey pair whose container is one of
\* JSONB_FIELDS.
C29_StylePathWellFormed ==
    \A r \in Requests :
        op[r].name = "updateDesign"
            => \A i \in DOMAIN op[r].args.designUpdates :
                  LET path == ResolvedStylePath(op[r].args.designUpdates[i][1])
                  IN  path # NullId => WellFormedStylePath(path)

\* the components of a client
ComponentsOf(clientId) ==
    {i \in DOMAIN components :
        components[i] # Null /\ components[i].client_id.s = clientId}

\* request r runs searchComponent
Searching(r) == op[r].name = "searchComponent" /\ op[r].pc # "idle"

\* the text a criteria key addresses in a row: a column, or a key of a document
\* column (absent when the document is NULL or lacks the key)
CriterionCell(row, key) ==
    IF Includes(Chars(key), <<".">>)
    THEN LET column == StringOf(BeforeDot(key))
             jsonKey == StringOf(AfterDot(key))
         IN  IF ~row[column].null /\ jsonKey \in DOMAIN row[column].doc
             THEN [present |-> TRUE, text |-> row[column].doc[jsonKey].s]
             ELSE [present |-> FALSE, text |-> ""]
    ELSE [present |-> TRUE, text |-> row[key].s]

\* value occurs in text, letter case aside
ContainsFold(text, value) == Includes(Lower(Chars(text)), Lower(Chars(value)))

\* C23: in the statement searchComponent builds, the predicate of a criteria
\* entry is an exact equality iff its key is component_type; for every other key,
\* flat or dotted, it holds of a row exactly when the addressed text contains the
\* value, letter case aside.
C23_ComparatorChoice ==
    \A r \in Requests :
        (Searching(r) /\ ~SearchRefused(op[r].setClauses))
            => \A k \in DOMAIN op[r].updates :
                  LET key == op[r].updates[k][1]
                      val == op[r].updates[k][2]
                      clause == op[r].setClauses[k + 1]
                  IN  /\ (clause.comparator = "=") <=> (key = "component_type")
                      /\ \A i \in ComponentsOf(op[r].args.clientId) :
                            LET cell == CriterionCell(components[i], key)
                            IN  cell.present
                                => (ClauseHolds(components[i], clause, op[r].values)
                                    <=> IF key = "component_type" THEN cell.text = val
                                        ELSE ContainsFold(cell.text, val))

\* the keys of a map in their order
KeysInOrder(map) == [i \in DOMAIN map |-> map[i][1]]

\* C24: the statement text of searchComponent depends on the criteria keys only
\* (two searches whose criteria have the same keys in the same order have the
\* same clauses), and the values travel as bound parameters: the client id as
\* $1, the k-th criteria value as $(k+1), which is the parameter its clause names.
C24_ValuesParameterized ==
    \A r \in Requests :
        Searching(r)
            => /\ \A q \in Requests :
                    (Searching(q) /\ KeysInOrder(op[q].updates) = KeysInOrder(op[r].updates))
                        => op[q].setClauses = op[r].setClauses
               /\ Len(op[r].values) = Len(op[r].updates) + 1
               /\ op[r].values[1] = op[r].args.clientId
               /\ \A k \in DOMAIN op[r].updates :
                    /\ op[r].values[k + 1] = op[r].updates[k][2]
                    /\ op[r].setClauses[k + 1].param = k + 1

C24_Witness ==
    /\ Searching(1) /\ Searching(2)
    /\ op[1].updates = << <<"component_type", "card">> >>
    /\ op[2].updates = << <<"component_type", "Card">> >>
    /\ op[1].setClauses = op[2].setClauses
    /\ op[1].values # op[2].values

\* C25: a successful search returns components of the given client only; with
\* no criteria it returns all of them, and with criteria exactly those that
\* satisfy the predicate of every entry, the statement having one predicate per
\* entry next to the client's.
C25_SearchScopedTotal ==
    \A r \in Requests :
        (Searching(r) /\ op[r].pc = "done" /\ op[r].result.success)
            => /\ Len(op[r].setClauses) = Len(op[r].updates) + 1
               /\ op[r].rows \subseteq ComponentsOf(op[r].args.clientId)
               /\ op[r].updates = <<>> => op[r].rows = ComponentsOf(op[r].args.clientId)
               /\ \A i \in ComponentsOf(op[r].args.clientId) :
                    i \in op[r].rows
                    <=> \A k \in DOMAIN op[r].updates :
                            ClauseHolds(components[i],
                                        SearchClause(op[r].updates[k][1],
                                                     op[r].updates[k][2], k + 1),
                                        op[r].values)
               /\ op[r].result.components = FoundComponents(components, op[r].rows)

C25_Witness ==
    \E r \in Requests :
        /\ Searching(r) /\ op[r].pc = "done" /\ op[r].result.success
        /\ op[r].args.clientId = "7"
        /\ op[r].updates = << <<"component_type", "link">>, <<"library_id", "lib1">> >>
        /\ op[r].rows = {2}
        /\ \E q \in Requests :
              /\ Searching(q) /\ op[q].pc = "done" /\ op[q].result.success
              /\ op[q].args.clientId = "8"
              /\ op[q].updates = <<>>
              /\ op[q].rows = {3}

\* the canonical path of a synonym-table entry, NullId for any other key
SynonymPath(key) ==
    CASE key = "title" -> "props.title"
      [] key = "heading" -> "props.title"
      [] key = "url" -> "link_props.url"
      [] OTHER -> NullId

\* what a raw key resolves to: the canonical path of the entry it names, letter
\* case aside, or the raw key itself
Resolved(rawKey) ==
    LET path == SynonymPath(StringOf(Lower(Chars(rawKey))))
    IN  IF path # NullId THEN path ELSE rawKey

SendsWrite(toolCall) ==
    /\ toolCall.name = "updateDesign"
    /\ ~Falsy(toolCall.args.clientId)
    /\ SetFields(sanitizeDesignUpdates(toolCall.args.designUpdates)) # {}

\* the tool calls of caller c's request that have been started and have not
\* settled
InFlight(c) ==
    IF call[c].pc = "designTools"
    THEN {i \in 1..Len(call[c].toolCalls) : i \notin call[c].toolDone}
    ELSE {}

\* C30: of the tool calls of one request, also when one message carries several,
\* at most one store write is in flight at any time: a write is sent only after
\* the one before it has settled.
C30_StoreCallsSequential ==
    \A c \in Callers :
        Cardinality({i \in InFlight(c) : SendsWrite(call[c].toolCalls[i])}) <= 1

\* ------------------------------------------------------------ failures, routing, isolation
\* the tool call ended in a catch block that a failed store call led to
StoreFailed(o) == o.pc = "done" /\ o.logged # <<>> /\ o.logged[1] \in ErrorMessages

\* C31: when a store call fails with an I/O error the outcome of the operation is
\* an error whose members do not depend on the underlying error: the detail
\* written to the log is no part of the result handed back
C31_GenericFailure ==
    \A r \in Requests :
        StoreFailed(op[r])
            => /\ ~op[r].result.success
               /\ op[r].result.error # ""
               /\ op[r].result.hasDetails => op[r].result.details \notin ErrorMessages

\* C32: in Idle, when the reply of the handler that was invoked carries no
\* candidate list, the pendingOperation handleMessage returns is the one it
\* received; a null one stays null
C32_IdleKeepsPending ==
    \A c \in Callers :
        LET cl == call[c]
        IN  (/\ cl.pc = "returned"
             /\ ~AwaitingSelection(cl)
             /\ ~cl.caught
             /\ cl.replies # <<>>
             /\ ListedIds(cl.result.reply) = <<>>)
                => cl.result.pendingOperation = cl.pendingArg

\* the entry is about props.title: the whole document with a title, or the key
TouchesTitle(entry) ==
    \/ entry[1] = "props" /\ entry[2].object /\ "title" \in DOMAIN entry[2].doc
    \/ entry[1] = "props.title"

\* the title the entry asks for
TitleOf(entry) == IF entry[1] = "props" THEN entry[2].doc["title"] ELSE entry[2]

\* C33: when one update map has a whole-document entry and a single-key entry for
\* the same document column, both instructions are emitted in map order and
\* applied in that order: once the store has run the update, the key both touch
\* holds the value of the later entry
C33_SameColumnInMapOrder ==
    \A r \in Requests :
        LET o == op[r]
            hits == {i \in DOMAIN o.updates : TouchesTitle(o.updates[i])}
            last == CHOOSE i \in hits : \A j \in hits : j <= i
        IN  (/\ o.name = "updateComponent"
             /\ o.pc = "done"
             /\ \E i \in hits : o.updates[i][1] = "props"
             /\ \E i \in hits : o.updates[i][1] = "props.title"
             /\ o.setClauses # <<>>
             /\ ~StoreFailed(o))
                => /\ [i \in DOMAIN o.setClauses |-> o.setClauses[i].kind]
                        = [i \in DOMAIN o.updates |->
                            IF o.updates[i][1] = "props" THEN "merge" ELSE "jsonb_set"]
                   /\ o.result.success
                   /\ \A i \in Matching(components, o.args.clientId, o.args.componentId) :
                         components[i].props.doc["title"] = TitleOf(o.updates[last])

\* the supersteps the DesignAgent graph has started in the activation: llmCall and
\* tools by turns
Supersteps(cl) ==
    2 * cl.rounds + (IF cl.pc = "designLLM" THEN 1 ELSE IF cl.pc = "designTools" THEN 2 ELSE 0)

C35_FlagAfterInterleaving ==
    (\A r \in Requests : /\ op[r].pc = "done"
                         /\ op[r].logged = <<>>
                         /\ op[r].args.componentId = "c1")
        => \A i \in DOMAIN components :
              (components[i] # Null /\ components[i].component_id = JsonString("c1"))
                  => (components[i].is_secured <=> HasAttachment("c1"))

\* the rows of component_security_groups of one component
AttachmentsOf(table, componentId) ==
    SelectSeq(table, LAMBDA row : row[1] = componentId)

\* C36: a tool call made with clientId A changes no component of another client,
\* none of its attachments and not its is_secured, whatever componentId it is given
C36_CollectionIsolation ==
    [][\A r \in Requests :
          (op[r].pc \notin {"idle", "done"} /\ op'[r] # op[r])
              => \A i \in DOMAIN components :
                    (/\ components[i] # Null
                     /\ components[i].client_id # JsonString(op[r].args.clientId))
                        => /\ components'[i] = components[i]
                           /\ AttachmentsOf(attachments', components[i].component_id.s)
                                = AttachmentsOf(attachments, components[i].component_id.s)]_vars

\* C37: routing is total when no selection is pending: a RouterAgent result without
\* a tool call goes to EditorAgent; a route other than editor, design and clarify
\* invokes no agent and no store call, returns the fallback reply and leaves the
\* pending operation as it was; and a request that was routed returns one reply
C37_RoutingTotal ==
    [][\A c \in Callers :
          /\ RouterReturns(c, "none")
                => /\ call'[c].pc = "editor"
                   /\ call'[c].invoked[Len(call'[c].invoked)].agent = "EditorAgent"
          /\ \A outcome \in RouterOutcomes \ {"throw", "none", "editor", "design", "clarify"} :
                RouterReturns(c, outcome)
                    => /\ call'[c].pc = "returned"
                       /\ call'[c].result.reply = FallbackReply
                       /\ call'[c].result.pendingOperation = call[c].pendingArg
                       /\ call'[c].invoked = call[c].invoked
                       /\ designs' = designs
                       /\ UNCHANGED storeVars
          /\ (/\ call[c].pc \notin {"idle", "returned", "threw"}
              /\ call[c].invoked[1].agent = "RouterAgent"
              /\ call'[c].pc \in {"returned", "threw"})
                => /\ call'[c].pc = "returned"
                   /\ call'[c].result.conversation
                        = call[c].localConversation
                            \o <<HumanMessage(call[c].message),
                                 AIMessage(call'[c].result.reply)>>]_vars

C37_Witness ==
    \E c \in Callers :
        /\ call[c].pc = "returned"
        /\ call[c].result.reply = FallbackReply
        /\ Len(call[c].invoked) = 1
        /\ call[c].invoked[1].agent = "RouterAgent"
        /\ call[c].pendingArg # Null
        /\ call[c].result.pendingOperation = call[c].pendingArg

\* C38: ClarifierAgent only reads: whatever tool call its model emits, the one
\* statement sent is searchComponent's SELECT, whose first clause is
\* client_id = $1 bound to the call's clientId, and no row of components,
\* component_security_groups or designs is created, changed or deleted
C38_ClarifierReadOnly ==
    [][/\ components' = components
       /\ attachments' = attachments
       /\ designs' = designs
       /\ \A r \in Requests :
            op'[r].pc # "idle"
                => /\ \A k \in DOMAIN op'[r].statements :
                        op'[r].statements[k] = "SELECT components"
                   /\ Len(op'[r].statements) <= 1
                   /\ op'[r].setClauses # <<>>
                   /\ op'[r].setClauses[1].column = "client_id"
                   /\ op'[r].setClauses[1].comparator = "="
                   /\ op'[r].values[op'[r].setClauses[1].param] = op'[r].args.clientId]_vars

C38_Witness ==
    \E r \in Requests :
        /\ op[r].pc = "done"
        /\ op[r].name = "deleteComponent"
        /\ op[r].statements = <<"SELECT components">>
        /\ op[r].result.success
        /\ components = SearchableComponents

\* the canonical path of each entry of a raw update map
PathsOf(raw) == [i \in DOMAIN raw |-> Resolved(raw[i][1])]

\* the last entry of the raw update map whose key resolves to the path
LastFor(raw, paths, path) ==
    raw[CHOOSE i \in DOMAIN raw :
            paths[i] = path /\ \A j \in DOMAIN raw : paths[j] = path => j <= i]

\* C39: when two or more raw keys of one update map resolve to the same canonical
\* path, the normalized map holds one entry for that path, with the value of the
\* raw key that comes last; one SET clause is issued for the path, bound to that
\* value, and the stored value is the last one
C39_SynonymCollision ==
    [][\A r \in Requests :
          (op'[r].name = "updateComponent" /\ op'[r].updates # <<>> /\ op'[r] # op[r])
              => \A paths \in {PathsOf(op'[r].args.updates)} :
                 \A path \in {paths[i] : i \in DOMAIN paths} :
                    Cardinality({i \in DOMAIN paths : paths[i] = path}) > 1
                        => \A value \in {LastFor(op'[r].args.updates, paths, path)[2]} :
                           LET o == op'[r]
                               entries == {k \in DOMAIN o.updates : o.updates[k][1] = path}
                           IN  /\ Cardinality(entries) = 1
                               /\ \A k \in entries : o.updates[k][2] = value
                               /\ o.setClauses # <<>>
                                    => /\ Len(o.setClauses) = Len(o.updates)
                                       /\ \A k \in entries :
                                            /\ o.setClauses[k] = SetClause(path, value, k + 2)
                                            /\ o.values[k + 2] = ClauseParam(path, value)
                                            /\ \A n \in DOMAIN o.setClauses :
                                                  o.setClauses[n].column = o.setClauses[k].column
                                                    => n = k
                               /\ (o.pc = "done" /\ o.result.success /\ path = "props.title")
                                    => \A n \in Matching(components', o.args.clientId,
                                                          o.args.componentId) :
                                          components'[n].props.doc["title"] = value]_vars

C39_Witness ==
    \E r \in Requests :
        /\ op[r].pc = "done"
        /\ op[r].name = "updateComponent"
        /\ op[r].args.updates = << <<"heading", JsonString("hero")>>,
                                   <<"url", JsonString("u")>>,
                                   <<"title", JsonString("Home")>> >>
        /\ op[r].updates = << <<"props.title", JsonString("Home")>>,
                              <<"link_props.url", JsonString("u")>> >>
        /\ Len(op[r].setClauses) = 2
        /\ op[r].statements # <<>>
        /\ op[r].result.success
        /\ \A n \in Matching(components, "7", "c1") :
              components[n].props.doc["title"] = JsonString("Home")

====
